---- MODULE Spec2Model ----
(***************************************************************************)
(* The business-management application: quote-number allocation            *)
(* (server/storage.ts, DatabaseStorage: the quotes table, the wall-clock   *)
(* year, createQuote / getQuote / updateQuote / deleteQuote, with          *)
(* getNextQuoteNumber computed as the code computes it on strings), the    *)
(* session gate of server/customAuth.ts, the owner-filtered list functions *)
(* of the storage, the totals of the client's quote forms, the status of   *)
(* a quote saved from QuoteForm, getDashboardStats, registration, login    *)
(* and logout, and the create functions that read their row back.          *)
(* A string is a sequence of one-character strings.                        *)
(***************************************************************************)
EXTENDS Integers, Sequences, FiniteSets, TLC

\* ------------------------------------------------------------------------
\* Bounds of the model
\* ------------------------------------------------------------------------
\* createQuote calls started on top of the initial table
MaxCreates == 3
\* deleteQuote / updateQuote calls in one run
MaxDeletes == 1
MaxUpdates == 1
\* calendar years the clock runs through: FirstYear .. FirstYear + MaxTicks
MaxTicks == 1
\* quotes already created, one after the other, when a run starts
SeedCount == 999
\* the year the clock shows when a run starts
FirstYear == 2024
\* requests sent through isAuthenticated, login requests and removals of
\* users rows in one run
MaxRequests == 3
MaxLogins == 2
MaxRemovals == 1
\* rows of the clients, meetings and quotes tables a list request runs over
MaxClients == 2
MaxMeetings == 1
MaxListedQuotes == 1
\* line items of a QuoteForm
MaxItems == 2
\* saves of QuoteForm in edit mode in one run
MaxSaves == 2
\* create calls on clients and meetings in one run, and the seconds the
\* database clock advances
MaxMakes == 2
MaxSeconds == 1
\* registration requests and logout requests in one run
MaxRegisters == 2
MaxLogouts == 1
\* the dashboard: the last instant of the clock (a month is two instants
\* long), and the rows of the quotes, meetings and clients tables it counts
MaxInstant == 2
MaxStatQuotes == 2
MaxStatMeetings == 1
MaxStatClients == 1

\* ------------------------------------------------------------------------
\* Program constants
\* ------------------------------------------------------------------------
\* targetLength of padStart(3, '0')
PadWidth == 3
\* number of trailing characters the QT variant parses: slice(-3)
SliceWidth == 3

Users == {"u1", "u2"}
Procs == {"p1", "p2"}
\* the handler that serves the requests when they come one after the other
Main == "p1"
\* the user of the session when one user's requests are followed
SessionUser == "u1"
Variants == {"Q", "QT"}
Statuses == {"draft", "sent"}
Years == FirstYear .. (FirstYear + MaxTicks)

\* ------------------------------------------------------------------------
\* JavaScript strings and numbers
\* ------------------------------------------------------------------------
Digits == <<"0", "1", "2", "3", "4", "5", "6", "7", "8", "9">>

\* a JavaScript number: an integer, or NaN
Num(v) == [nan |-> FALSE, val |-> v]

NaN == [nan |-> TRUE, val |-> 0]

IsDigit(c) == \E i \in 1..10 : Digits[i] = c

DigitVal(c) == (CHOOSE i \in 1..10 : Digits[i] = c) - 1

\* collation weight of the characters that occur in quote numbers
CharWeight(c) ==
  IF c = "-" THEN 45
  ELSE IF IsDigit(c) THEN 48 + DigitVal(c)
  ELSE IF c = "a" \/ c = "A" THEN 65
  ELSE IF c = "N" THEN 78
  ELSE IF c = "Q" THEN 81
  ELSE 84

\* a < b in the order ORDER BY uses on quote_number
RECURSIVE StrLess(_, _)
StrLess(a, b) ==
  IF b = <<>> THEN FALSE
  ELSE IF a = <<>> THEN TRUE
  ELSE IF CharWeight(Head(a)) # CharWeight(Head(b))
       THEN CharWeight(Head(a)) < CharWeight(Head(b))
  ELSE StrLess(Tail(a), Tail(b))

\* Number.prototype.toString(), radix 10
RECURSIVE Decimal(_)
Decimal(v) ==
  IF v < 10 THEN <<Digits[v + 1]>>
  ELSE Decimal(v \div 10) \o <<Digits[(v % 10) + 1]>>

toString(n) ==
  IF n.nan THEN <<"N", "a", "N">>
  ELSE IF n.val < 0 THEN <<"-">> \o Decimal(0 - n.val)
  ELSE Decimal(n.val)

\* a formatting that forgets the padding
padStartNone(s, targetLength, padString) == s

\* a formatting that keeps exactly targetLength characters, as
\* ('000' + n).slice(-3) does
padStartExact(s, targetLength, padString) ==
  LET padded == [i \in 1..targetLength |-> padString] \o s
  IN SubSeq(padded, Len(padded) - targetLength + 1, Len(padded))

\* String.prototype.padStart(targetLength, padString), one-character pad
RECURSIVE padStart(_, _, _)
padStart(s, targetLength, padString) ==
  IF Len(s) >= targetLength THEN s
  ELSE padStart(<<padString>> \o s, targetLength, padString)

\* the leading run of decimal digits of s, as a number, continuing from acc
RECURSIVE DigitRun(_, _)
DigitRun(s, acc) ==
  IF s = <<>> \/ ~IsDigit(Head(s)) THEN acc
  ELSE DigitRun(Tail(s), acc * 10 + DigitVal(Head(s)))

\* parseInt(string): optional sign, then the leading digits; NaN without any
parseInt(s) ==
  LET neg  == s # <<>> /\ Head(s) = "-"
      body == IF neg THEN Tail(s) ELSE s
  IN IF body = <<>> \/ ~IsDigit(Head(body)) THEN NaN
     ELSE IF neg THEN Num(0 - DigitRun(body, 0))
     ELSE Num(DigitRun(body, 0))

\* lastNumber + 1 in JavaScript: NaN + 1 is NaN
PlusOne(n) == IF n.nan THEN NaN ELSE Num(n.val + 1)

\* LIKE 'prefix%' with a prefix free of wildcards
StartsWith(s, pre) ==
  Len(s) >= Len(pre) /\ SubSeq(s, 1, Len(pre)) = pre

\* String.prototype.replace(pattern, ''): the first occurrence removed
replace(s, pat) ==
  LET hits == {i \in 1..(Len(s) - Len(pat) + 1) :
                 SubSeq(s, i, i + Len(pat) - 1) = pat}
  IN IF hits = {} THEN s
     ELSE LET i == CHOOSE h \in hits : \A g \in hits : h <= g
          IN SubSeq(s, 1, i - 1) \o SubSeq(s, i + Len(pat), Len(s))

\* String.prototype.slice(-k): the last k characters
sliceLast(s, k) ==
  IF Len(s) <= k THEN s ELSE SubSeq(s, Len(s) - k + 1, Len(s))

\* ------------------------------------------------------------------------
\* State
\* ------------------------------------------------------------------------
VARIABLES
  variant,   \* which storage.ts is deployed: "Q" (Q<year>-nnn) or "QT" (QT<year>nnn)
  year,      \* new Date().getFullYear()
  quotes,    \* the quotes table: its rows, in insertion order
  nextId,    \* source of fresh row ids (UUID())
  pc,        \* pc[p]: where request handler p stands inside createQuote
  cand,      \* cand[p]: createQuote's local quoteNumber
  input,     \* input[p]: createQuote's argument
  yearRead,  \* yearRead[p]: getNextQuoteNumber's local year
  readVer,   \* readVer[p]: number of table writes that preceded p's read
  result,    \* result[p]: outcome of p's current or last createQuote
  issued,    \* the quote numbers inserted in this run, in order
  creates,   \* createQuote calls started
  deletes,   \* deleteQuote calls
  updates    \* updateQuote calls

quoteVars == <<variant, year, quotes, nextId, pc, cand, input, yearRead,
               readVer, result, issued, creates, deletes, updates>>

\* the users table, the session store and the requests that pass through
\* isAuthenticated (server/customAuth.ts)
VARIABLES
  users,      \* the users table: a set of rows
  sessions,   \* the session store: the saved sessions, each with its user id
  cookie,     \* the session id the browser sends (0 when it holds none)
  destroying, \* session ids whose store.destroy has been issued, not yet run
  dead,       \* session ids whose destroy was issued while they named a
              \* missing user, and that nobody has signed in to since
  dbUp,       \* whether the users table can be read
  apc,        \* apc[r]: where request r stands inside isAuthenticated
  reqSid,     \* reqSid[r]: req.sessionID of request r
  reqUser,    \* reqUser[r]: req.session.user.id of request r
  resp,       \* resp[r]: what request r was last answered
  nextSid,    \* source of fresh session ids
  requests,   \* requests sent through isAuthenticated so far
  logins,     \* login requests so far
  removals    \* users rows removed so far

authVars == <<users, sessions, cookie, destroying, dead, dbUp, apc, reqSid,
              reqUser, resp, nextSid, requests, logins, removals>>

\* the clients and meetings tables and the answer of the last list request
VARIABLES
  clients,   \* the clients table: its rows, oldest first
  meetings,  \* the meetings table: its rows, earliest scheduledAt first
  listed     \* the last call of a list function: its arguments and its rows

listVars == <<clients, meetings, listed>>

\* the quote forms of the client (QuoteForm, QuickQuoteForm)
VARIABLES
  form,      \* the values QuoteForm holds: items, subtotal, tax, total
  quick,     \* formData.estimatedValue of QuickQuoteForm
  payload    \* the body of the request a form has sent and not yet seen answered

formVars == <<form, quick, payload>>

\* QuoteForm opened on a stored quote and saved (edit mode)
VARIABLES
  saved      \* the last save: the quote's id, its status before, the status
             \* sent, and the rows updateQuote returned

saveVars == <<saved>>

\* the dashboard
VARIABLES
  stats      \* the last call of getDashboardStats: its arguments, the clock
             \* it read, whether a query failed, and what it returned

dashVars == <<stats>>

\* registration and logout (server/customAuth.ts)
VARIABLES
  reqBody,   \* reqBody[r]: req.body of the registration request r is serving
  registers, \* registration requests so far
  minted,    \* ids nanoid() has generated so far
  loggedOut, \* session ids a logout has answered "Logged out successfully"
  logouts    \* logout requests so far

regVars == <<reqBody, registers, minted, loggedOut, logouts>>

\* createClient and createMeeting, each an insert and a read
VARIABLES
  making,    \* making[p]: the create call p is serving, with the id of the
             \* row it inserted, or the last one it served
  got,       \* got[p]: the id of the row p's last create call returned
  clock,     \* the second the database clock shows
  makes      \* create calls so far

makeVars == <<making, got, clock, makes>>

\* the state of the further services of the storage and of customAuth.ts
serviceVars == <<saveVars, dashVars, regVars, makeVars>>

vars == <<quoteVars, authVars, listVars, formVars, serviceVars>>

\* what the operations on quotes leave alone, and what the requests of
\* customAuth.ts leave alone
outsideQuotes == <<authVars, listVars, formVars, serviceVars>>
outsideAuth == <<quoteVars, listVars, formVars, serviceVars>>
outsideLists == <<authVars, formVars, serviceVars>>
outsideForms == <<quoteVars, authVars, listVars, serviceVars>>
outsideSaves == <<authVars, listVars, formVars, dashVars, regVars, makeVars>>
outsideDash == <<authVars, formVars, saveVars, regVars, makeVars>>
outsideReg == <<quoteVars, listVars, formVars, saveVars, dashVars, makeVars>>
outsideMakes == <<quoteVars, authVars, formVars, saveVars, dashVars, regVars>>

\* ------------------------------------------------------------------------
\* getNextQuoteNumber
\* ------------------------------------------------------------------------
\* `Q${year}-`
PrefixQ(yr) == <<"Q">> \o toString(Num(yr)) \o <<"-">>

\* `QT${year}`
PrefixQT(yr) == <<"Q", "T">> \o toString(Num(yr))

Prefix(v, yr) == IF v = "Q" THEN PrefixQ(yr) ELSE PrefixQT(yr)

\* a filter on the literal part of the prefix alone: like 'Q%'
likeAnyYear(s, pre) == StartsWith(s, <<"Q">>)

\* like(quotes.quoteNumber, `${prefix}%`)
like(s, pre) == StartsWith(s, pre)

\* .where(like ...).orderBy(desc(quotes.quoteNumber)).limit(1) over rows
\* lo..hi of tbl: the index of the row returned, 0 when no row matches
RECURSIVE LastQuote(_, _, _, _)
LastQuote(tbl, pre, lo, hi) ==
  IF lo > hi THEN 0
  ELSE IF lo = hi THEN (IF like(tbl[lo].quoteNumber, pre) THEN lo ELSE 0)
  ELSE LET mid == (lo + hi) \div 2
           a   == LastQuote(tbl, pre, lo, mid)
           b   == LastQuote(tbl, pre, mid + 1, hi)
       IN IF a = 0 THEN b
          ELSE IF b = 0 THEN a
          ELSE IF StrLess(tbl[a].quoteNumber, tbl[b].quoteNumber) THEN b
          ELSE a

\* an allocator that starts each year at 000
getNextQuoteNumberFromZero(tbl, yr) ==
  LET prefix    == PrefixQ(yr)
      lastQuote == LastQuote(tbl, prefix, 1, Len(tbl))
  IN IF lastQuote = 0 THEN prefix \o <<"0", "0", "0">>
     ELSE LET lastNumber == parseInt(replace(tbl[lastQuote].quoteNumber, prefix))
              nextNumber == padStart(toString(PlusOne(lastNumber)), PadWidth, "0")
          IN prefix \o nextNumber

\* storage.ts, MySQL version
getNextQuoteNumberQ(tbl, yr) ==
  LET prefix    == PrefixQ(yr)
      lastQuote == LastQuote(tbl, prefix, 1, Len(tbl))
  IN IF lastQuote = 0 THEN prefix \o <<"0", "0", "1">>
     ELSE LET lastNumber == parseInt(replace(tbl[lastQuote].quoteNumber, prefix))
              nextNumber == padStart(toString(PlusOne(lastNumber)), PadWidth, "0")
          IN prefix \o nextNumber

\* storage.ts, older version
getNextQuoteNumberQT(tbl, yr) ==
  LET prefix    == PrefixQT(yr)
      lastQuote == LastQuote(tbl, prefix, 1, Len(tbl))
  IN IF lastQuote = 0 THEN prefix \o <<"0", "0", "1">>
     ELSE LET lastNumber ==
                parseInt(sliceLast(tbl[lastQuote].quoteNumber, SliceWidth))
          IN prefix \o padStart(toString(PlusOne(lastNumber)), PadWidth, "0")

getNextQuoteNumber(v, tbl, yr) ==
  IF v = "Q" THEN getNextQuoteNumberQ(tbl, yr) ELSE getNextQuoteNumberQT(tbl, yr)

\* ------------------------------------------------------------------------
\* The quotes table
\* ------------------------------------------------------------------------
\* a table created without the UNIQUE index on quote_number
NoUniqueIndex(tbl, qn) == FALSE

\* quote_number VARCHAR(100) NOT NULL UNIQUE: the insert of qn is rejected
UniqueViolation(tbl, qn) == \E i \in DOMAIN tbl : tbl[i].quoteNumber = qn

QuoteRow(id, qn, in) ==
  [id |-> id, quoteNumber |-> qn, createdBy |-> in.createdBy, status |-> in.status]

\* db.delete(quotes).where(eq(quotes.id, id))
DeleteWhereId(tbl, id) == SelectSeq(tbl, LAMBDA r : r.id # id)

\* the place of a status in the life of a quote
StatusRank(s) ==
  CASE s = "draft" -> 0 [] s = "sent" -> 1 [] OTHER -> 2

\* an update that refuses to move a quote back
UpdateWhereIdForward(tbl, id, patch) ==
  [i \in DOMAIN tbl |->
     IF /\ tbl[i].id = id
        /\ "status" \in DOMAIN patch => StatusRank(patch.status) >= StatusRank(tbl[i].status)
     THEN [f \in DOMAIN tbl[i] |-> IF f \in DOMAIN patch THEN patch[f] ELSE tbl[i][f]]
     ELSE tbl[i]]

\* db.update(quotes).set({...quote}).where(eq(quotes.id, id)): every column
\* the patch names is written, the others are kept
UpdateWhereId(tbl, id, patch) ==
  [i \in DOMAIN tbl |->
     IF tbl[i].id = id
     THEN [f \in DOMAIN tbl[i] |-> IF f \in DOMAIN patch THEN patch[f] ELSE tbl[i][f]]
     ELSE tbl[i]]

\* the columns of a quote row
QuoteColumns == {"id", "quoteNumber", "createdBy", "status"}

\* the columns a schema that omitted only the id would let a caller set
ColumnsButId == QuoteColumns \ {"id"}

\* InsertQuote: the columns of insertQuoteSchema, which omits id and
\* quoteNumber
InsertQuoteFields == QuoteColumns \ {"id", "quoteNumber"}

\* the values a caller may send for a column
FieldValues(f) ==
  CASE f = "status" -> Statuses
    [] f = "createdBy" -> Users
    [] f = "quoteNumber" -> {PrefixQ(FirstYear) \o <<"0", "0", "1">>}
    [] OTHER -> {}

\* the objects that carry a value for each field of S
RECURSIVE ObjectsOver(_)
ObjectsOver(S) ==
  IF S = {} THEN {[f \in {} |-> f]}
  ELSE LET g == CHOOSE f \in S : TRUE
       IN {(g :> v) @@ o : v \in FieldValues(g), o \in ObjectsOver(S \ {g})}

\* Partial<InsertQuote>: any of the fields of InsertQuote, each optional
PartialInsertQuote == UNION {ObjectsOver(S) : S \in SUBSET InsertQuoteFields}

\* db.select().from(quotes).where(eq(quotes.id, id)): the first row or none
SelectWhereId(tbl, id) ==
  LET found == SelectSeq(tbl, LAMBDA r : r.id = id)
  IN IF found = <<>> THEN <<>> ELSE <<found[1]>>

\* the row the n-th of a year's createQuote calls, made one after the other,
\* inserts
SeedRow(v, yr, n) ==
  QuoteRow(n, Prefix(v, yr) \o padStart(toString(Num(n)), PadWidth, "0"),
           [createdBy |-> "u1", status |-> "draft"])

\* the table after n createQuote calls made one after the other in year yr
Seeded(v, yr, n) == [i \in 1..n |-> SeedRow(v, yr, i)]

\* the table after those n calls and the deletion of all rows but the last
Survivor(v, yr, n) == IF n = 0 THEN <<>> ELSE <<SeedRow(v, yr, n)>>

\* ------------------------------------------------------------------------
\* Initial states
\* ------------------------------------------------------------------------
\* the locals of a call that is over
NoInput == [createdBy |-> "u1", status |-> "draft"]

NoRead == 0 - 1

\* ------------------------------------------------------------------------
\* Users, sessions and passwords (server/customAuth.ts)
\* ------------------------------------------------------------------------
\* the requests one browser has in flight at a time
Reqs == {"r1", "r2"}

Emails == {"ann@opian", "bob@opian"}
Passwords == {"secret", "guess"}

\* req.session.user of a session nobody signed in to; the cookie of a
\* browser that holds none
NoUser == "nobody"
NoSid == 0

\* bcrypt.hash(password, saltRounds) and bcrypt.compare(password, hash)
hashPassword(password) == <<"bcrypt", password>>
comparePassword(password, hash) == hash = hashPassword(password)

\* the two registered users
RegisteredUsers ==
  {[id |-> "u1", email |-> "ann@opian", passwordHash |-> hashPassword("secret")],
   [id |-> "u2", email |-> "bob@opian", passwordHash |-> hashPassword("secret")]}

\* no request has been made: two users are registered, nobody is signed in
AuthAtRest ==
  /\ users = RegisteredUsers
  /\ sessions = {}
  /\ cookie = NoSid
  /\ destroying = {}
  /\ dead = {}
  /\ dbUp = TRUE
  /\ apc = [r \in Reqs |-> "idle"]
  /\ reqSid = [r \in Reqs |-> NoSid]
  /\ reqUser = [r \in Reqs |-> NoUser]
  /\ resp = [r \in Reqs |-> "none"]
  /\ nextSid = 1
  /\ requests = 0
  /\ logins = 0
  /\ removals = 0

\* no client, no meeting, no list request yet
NotListed == [op |-> "none", userId |-> "u1", isAdmin |-> FALSE, query |-> <<>>, rows |-> <<>>]

ListsAtRest ==
  /\ clients = <<>>
  /\ meetings = <<>>
  /\ listed = NotListed

\* defaultValues of QuoteForm: one item of quantity 1 and rate 0, totals 0
DefaultItem == [quantity |-> Num(1), rate |-> Num(0), amount |-> Num(0)]

DefaultValues ==
  [items |-> <<DefaultItem>>, subtotal |-> Num(0), tax |-> Num(0), total |-> Num(0)]

NoPayload == [form |-> "none"]

\* both forms as they are mounted, nothing sent
FormsAtRest ==
  /\ form = DefaultValues
  /\ quick = <<>>
  /\ payload = NoPayload

NotSaved == [id |-> 0, from |-> "none", status |-> "none", returned |-> <<>>]

\* no quote saved from QuoteForm yet
SavesAtRest == saved = NotSaved

NoFigures == [threw |-> FALSE, totalClients |-> 0, activeQuotes |-> 0,
              upcomingMeetings |-> 0, monthlyRevenue |-> Num(0)]

NoStats == [op |-> "none", userId |-> "u1", isAdmin |-> FALSE, now |-> 0,
            failed |-> FALSE, figures |-> NoFigures]

\* the dashboard not asked for yet
DashAtRest == stats = NoStats

NoBody == [email |-> "", password |-> "", firstName |-> "", lastName |-> "", role |-> ""]

\* no registration and no logout yet
RegAtRest ==
  /\ reqBody = [r \in Reqs |-> NoBody]
  /\ registers = 0
  /\ minted = 0
  /\ loggedOut = {}
  /\ logouts = 0

NotMaking == [op |-> "none", step |-> "idle", id |-> 0, name |-> <<>>]

\* no create call yet
MakesAtRest ==
  /\ making = [p \in Procs |-> NotMaking]
  /\ got = [p \in Procs |-> 0]
  /\ clock = 0
  /\ makes = 0

\* the further services before their first call
ServicesAtRest == SavesAtRest /\ DashAtRest /\ RegAtRest /\ MakesAtRest

\* the state of everything but the quotes when a run on quotes starts
OutsideQuotesAtRest == AuthAtRest /\ ListsAtRest /\ FormsAtRest /\ ServicesAtRest

InitLocals ==
  /\ year = FirstYear
  /\ pc = [p \in Procs |-> "idle"]
  /\ cand = [p \in Procs |-> <<>>]
  /\ input = [p \in Procs |-> NoInput]
  /\ yearRead = [p \in Procs |-> FirstYear]
  /\ readVer = [p \in Procs |-> NoRead]
  /\ result = [p \in Procs |-> "none"]
  /\ issued = <<>>
  /\ creates = 0
  /\ deletes = 0
  /\ updates = 0

\* how many quotes the year has seen when a run starts: none, or as many as
\* bring the next number to the second, the third or the fourth digit
Seeds == {0, 9, 99, SeedCount}

\* an empty table, or the table a year's first quotes leave when all but the
\* newest have been deleted again
Init ==
  /\ InitLocals
  /\ variant \in Variants
  /\ \E n \in Seeds :
       /\ quotes = Survivor(variant, FirstYear, n)
       /\ nextId = n + 1
  /\ OutsideQuotesAtRest

\* an empty table, or the table after a year's first quotes
InitCreated ==
  /\ InitLocals
  /\ variant \in Variants
  /\ \E n \in Seeds :
       /\ quotes = Seeded(variant, FirstYear, n)
       /\ nextId = n + 1
  /\ OutsideQuotesAtRest

\* ------------------------------------------------------------------------
\* createQuote, step by step
\* ------------------------------------------------------------------------
AllIdle == \A p \in Procs : pc[p] = "idle"

\* table writes so far: every insert and every delete
Ver == Len(issued) + deletes

\* p's call returns or throws: what it read is kept only as long as another
\* call that has read and not yet inserted can be compared with it
Forget(p) ==
  IF \E q \in Procs \ {p} : pc[q] = "insert"
  THEN UNCHANGED <<yearRead, readVer>>
  ELSE /\ yearRead' = [q \in Procs |-> FirstYear]
       /\ readVer' = [q \in Procs |-> NoRead]

\* a getNextQuoteNumber that would reserve the number it returns by storing
\* a placeholder row
GetNextReserving(p, u) ==
  /\ pc[p] = "idle"
  /\ creates < MaxCreates
  /\ creates' = creates + 1
  /\ input' = [input EXCEPT ![p] = [createdBy |-> u, status |-> "draft"]]
  /\ yearRead' = [yearRead EXCEPT ![p] = year]
  /\ readVer' = [readVer EXCEPT ![p] = Ver]
  /\ cand' = [cand EXCEPT ![p] = getNextQuoteNumber(variant, quotes, year)]
  /\ quotes' = Append(quotes, QuoteRow(nextId, getNextQuoteNumber(variant, quotes, year),
                                       [createdBy |-> u, status |-> "draft"]))
  /\ nextId' = nextId + 1
  /\ result' = [result EXCEPT ![p] = "pending"]
  /\ pc' = [pc EXCEPT ![p] = "insert"]
  /\ UNCHANGED <<variant, year, issued, deletes, updates>>
  /\ UNCHANGED outsideQuotes

\* const quoteNumber = await this.getNextQuoteNumber()
GetNext(p, u) ==
  /\ pc[p] = "idle"
  /\ creates < MaxCreates
  /\ creates' = creates + 1
  /\ input' = [input EXCEPT ![p] = [createdBy |-> u, status |-> "draft"]]
  /\ yearRead' = [yearRead EXCEPT ![p] = year]
  /\ readVer' = [readVer EXCEPT ![p] = Ver]
  /\ cand' = [cand EXCEPT ![p] = getNextQuoteNumber(variant, quotes, year)]
  /\ result' = [result EXCEPT ![p] = "pending"]
  /\ pc' = [pc EXCEPT ![p] = "insert"]
  /\ UNCHANGED <<variant, year, quotes, nextId, issued, deletes, updates>>
  /\ UNCHANGED outsideQuotes

\* a createQuote that would catch the duplicate rejection, allocate again and
\* insert again
InsertRetrying(p) ==
  /\ pc[p] = "insert"
  /\ IF UniqueViolation(quotes, cand[p])
     THEN /\ cand' = [cand EXCEPT ![p] = getNextQuoteNumber(variant, quotes, year)]
          /\ UNCHANGED <<quotes, nextId, issued, result, pc, input,
                         yearRead, readVer>>
     ELSE /\ quotes' = Append(quotes, QuoteRow(nextId, cand[p], input[p]))
          /\ nextId' = nextId + 1
          /\ issued' = Append(issued, cand[p])
          /\ result' = [result EXCEPT ![p] =
                          IF variant = "Q" THEN "inserted" ELSE "created"]
          /\ pc' = [pc EXCEPT ![p] = IF variant = "Q" THEN "select" ELSE "idle"]
          /\ cand' = [cand EXCEPT ![p] = IF variant = "Q" THEN cand[p] ELSE <<>>]
          /\ IF variant = "Q" THEN UNCHANGED <<yearRead, readVer>> ELSE Forget(p)
          /\ input' = [input EXCEPT ![p] = NoInput]
  /\ UNCHANGED <<variant, year, creates, deletes, updates>>
  /\ UNCHANGED outsideQuotes

\* a getNextQuoteNumber that would catch the failure of its read and go on
\* as if the year had no quote
GetNextDefaults(p, u) ==
  /\ pc[p] = "idle"
  /\ creates < MaxCreates
  /\ creates' = creates + 1
  /\ input' = [input EXCEPT ![p] = [createdBy |-> u, status |-> "draft"]]
  /\ yearRead' = [yearRead EXCEPT ![p] = year]
  /\ readVer' = [readVer EXCEPT ![p] = NoRead]
  /\ cand' = [cand EXCEPT ![p] = getNextQuoteNumber(variant, <<>>, year)]
  /\ result' = [result EXCEPT ![p] = "pending"]
  /\ pc' = [pc EXCEPT ![p] = "insert"]
  /\ UNCHANGED <<variant, year, quotes, nextId, issued, deletes, updates>>
  /\ UNCHANGED outsideQuotes

\* const quoteNumber = await this.getNextQuoteNumber(), the select of
\* getNextQuoteNumber rejecting: the rejection leaves getNextQuoteNumber and
\* then createQuote, before quoteData is built
GetNextFails(p, u) ==
  /\ pc[p] = "idle"
  /\ creates < MaxCreates
  /\ creates' = creates + 1
  /\ result' = [result EXCEPT ![p] = "read_error"]
  /\ yearRead' = [yearRead EXCEPT ![p] = FirstYear]
  /\ readVer' = [readVer EXCEPT ![p] = NoRead]
  /\ UNCHANGED <<variant, year, quotes, nextId, pc, cand, input, issued,
                 deletes, updates>>
  /\ UNCHANGED outsideQuotes

\* await db.insert(quotes).values(quoteData): rejected on a duplicate
\* quote_number, and then createQuote throws
Insert(p) ==
  /\ pc[p] = "insert"
  /\ IF UniqueViolation(quotes, cand[p])
     THEN /\ result' = [result EXCEPT ![p] = "duplicate"]
          /\ pc' = [pc EXCEPT ![p] = "idle"]
          /\ cand' = [cand EXCEPT ![p] = <<>>]
          /\ Forget(p)
          /\ UNCHANGED <<quotes, nextId, issued>>
     ELSE /\ quotes' = Append(quotes, QuoteRow(nextId, cand[p], input[p]))
          /\ nextId' = nextId + 1
          /\ issued' = Append(issued, cand[p])
          /\ result' = [result EXCEPT ![p] =
                          IF variant = "Q" THEN "inserted" ELSE "created"]
          /\ pc' = [pc EXCEPT ![p] = IF variant = "Q" THEN "select" ELSE "idle"]
          /\ cand' = [cand EXCEPT ![p] = IF variant = "Q" THEN cand[p] ELSE <<>>]
          /\ IF variant = "Q" THEN UNCHANGED <<yearRead, readVer>> ELSE Forget(p)
  /\ input' = [input EXCEPT ![p] = NoInput]
  /\ UNCHANGED <<variant, year, creates, deletes, updates>>
  /\ UNCHANGED outsideQuotes

\* const [newQuote] = await db.select()...where(eq(quotes.quoteNumber, ...))
Select(p) ==
  /\ pc[p] = "select"
  /\ result' = [result EXCEPT ![p] =
                  IF \E i \in DOMAIN quotes : quotes[i].quoteNumber = cand[p]
                  THEN "created" ELSE "undefined"]
  /\ pc' = [pc EXCEPT ![p] = "idle"]
  /\ cand' = [cand EXCEPT ![p] = <<>>]
  /\ Forget(p)
  /\ UNCHANGED <<variant, year, quotes, nextId, input,
                 issued, creates, deletes, updates>>
  /\ UNCHANGED outsideQuotes

\* ------------------------------------------------------------------------
\* deleteQuote, updateQuote, the clock
\* ------------------------------------------------------------------------
deleteQuote(id) ==
  /\ deletes < MaxDeletes
  /\ \E i \in DOMAIN quotes : quotes[i].id = id
  /\ quotes' = DeleteWhereId(quotes, id)
  /\ deletes' = deletes + 1
  /\ UNCHANGED <<variant, year, nextId, pc, cand, input, yearRead, readVer,
                 result, issued, creates, updates>>
  /\ UNCHANGED outsideQuotes

updateQuote(id, patch) ==
  /\ updates < MaxUpdates
  /\ \E i \in DOMAIN quotes : quotes[i].id = id
  /\ quotes' = UpdateWhereId(quotes, id, patch)
  /\ updates' = updates + 1
  /\ UNCHANGED <<variant, year, nextId, pc, cand, input, yearRead, readVer,
                 result, issued, creates, deletes>>
  /\ UNCHANGED outsideQuotes

\* getQuote(id), called between the createQuote calls of p's session: the
\* row with that id, or undefined
getQuote(p, id) ==
  /\ pc[p] = "idle"
  /\ result' = [result EXCEPT ![p] =
                  IF SelectWhereId(quotes, id) = <<>> THEN "none" ELSE "quote"]
  /\ UNCHANGED <<variant, year, quotes, nextId, pc, cand, input, yearRead,
                 readVer, issued, creates, deletes, updates>>
  /\ UNCHANGED outsideQuotes

\* the calendar year changes
Tick ==
  /\ year < FirstYear + MaxTicks
  /\ year' = year + 1
  /\ UNCHANGED <<variant, quotes, nextId, pc, cand, input, yearRead, readVer,
                 result, issued, creates, deletes, updates>>
  /\ UNCHANGED outsideQuotes

Ids == {quotes[i].id : i \in DOMAIN quotes}

\* ------------------------------------------------------------------------
\* Specifications
\* ------------------------------------------------------------------------
\* the requests of one signed-in user, served one after the other: create,
\* update, delete (createdBy is the session's user)
Next ==
  \/ AllIdle /\ GetNext(Main, SessionUser)
  \/ Insert(Main)
  \/ Select(Main)
  \/ \E id \in Ids : AllIdle /\ deleteQuote(id)
  \/ \E id \in Ids, s \in Statuses : AllIdle /\ updateQuote(id, [status |-> s])
  \/ Tick

Spec == Init /\ [][Next]_vars

\* createQuote calls only, one after the other
NextCreated ==
  \/ \E u \in Users : AllIdle /\ GetNext(Main, u)
  \/ Insert(Main)
  \/ Select(Main)
  \/ Tick

SpecCreated == InitCreated /\ [][NextCreated]_vars

\* createQuote calls of concurrent requests, interleaved at their awaits
NextRace ==
  \/ \E p \in Procs, u \in Users : GetNext(p, u)
  \/ \E p \in Procs : Insert(p)
  \/ \E p \in Procs : Select(p)
  \/ Tick

SpecRace == Init /\ [][NextRace]_vars

\* concurrent createQuote calls over a database whose reads may fail
NextFaulty ==
  \/ \E p \in Procs, u \in Users : GetNext(p, u)
  \/ \E p \in Procs, u \in Users : GetNextFails(p, u)
  \/ \E p \in Procs : Insert(p)
  \/ \E p \in Procs : Select(p)
  \/ Tick

SpecFaulty == Init /\ [][NextFaulty]_vars

\* a table of one quote, the survivor of the year's first nine
InitCrud ==
  /\ variant \in Variants
  /\ year = FirstYear
  /\ quotes = Survivor(variant, year, 9)
  /\ nextId = 10
  /\ InitLocals
  /\ OutsideQuotesAtRest

\* concurrent requests that create, read, update and delete quotes within
\* one year; an update sends any Partial<InsertQuote>; the createQuote calls
\* are one fewer than MaxCreates
NextCrud ==
  \/ \E p \in Procs : creates + 1 < MaxCreates /\ GetNext(p, SessionUser)
  \/ \E p \in Procs : Insert(p)
  \/ \E p \in Procs : Select(p)
  \/ \E id \in Ids \cup {nextId} : AllIdle /\ getQuote(Main, id)
  \/ \E id \in Ids : deleteQuote(id)
  \/ \E id \in Ids, patch \in PartialInsertQuote : updateQuote(id, patch)

SpecCrud == InitCrud /\ [][NextCrud]_vars

\* suffixes no allocation produces, as a row added by hand may carry them
MalformedSuffixes == {<<"a", "0", "1">>, <<"0", "1", "a">>}

\* the table after some createQuote calls and one row added by hand under
\* the year's prefix with a suffix that is not a number
InitMalformed ==
  /\ InitLocals
  /\ OutsideQuotesAtRest
  /\ variant \in Variants
  /\ \E n \in {0, 9}, suffix \in MalformedSuffixes :
       /\ quotes = Append(Seeded(variant, FirstYear, n),
                          QuoteRow(n + 1, Prefix(variant, FirstYear) \o suffix,
                                   [createdBy |-> "u1", status |-> "draft"]))
       /\ nextId = n + 2

\* createQuote calls, one after the other, on such a table
SpecMalformed == InitMalformed /\ [][NextCreated]_vars

\* ------------------------------------------------------------------------
\* Vocabulary of the claims
\* ------------------------------------------------------------------------
Numbers(tbl) == {tbl[i].quoteNumber : i \in DOMAIN tbl}

\* the decimal numeral of a natural number
RECURSIVE Numeral(_)
Numeral(n) ==
  IF n < 10 THEN <<Digits[n + 1]>> ELSE Append(Numeral(n \div 10), Digits[(n % 10) + 1])

\* the numeral of n written with at least three digits
Numeral3(n) ==
  IF n < 10 THEN <<"0", "0">> \o Numeral(n)
  ELSE IF n < 100 THEN <<"0">> \o Numeral(n)
  ELSE Numeral(n)

\* the prefix quote numbers of year y carry
YearPrefix(y) ==
  IF variant = "Q" THEN <<"Q">> \o Numeral(y) \o <<"-">>
  ELSE <<"Q", "T">> \o Numeral(y)

HasPrefix(qn, pre) ==
  /\ Len(qn) >= Len(pre)
  /\ \A k \in 1..Len(pre) : qn[k] = pre[k]

\* the number a digit string denotes
RECURSIVE DigitsValue(_)
DigitsValue(ds) ==
  IF ds = <<>> THEN 0
  ELSE 10 * DigitsValue(SubSeq(ds, 1, Len(ds) - 1)) + DigitVal(ds[Len(ds)])

\* the numeric suffix of a quote number that carries prefix pre
SuffixNum(qn, pre) == DigitsValue(SubSeq(qn, Len(pre) + 1, Len(qn)))

\* the indices of the rows numbered under year y
RowsOfYear(tbl, y) ==
  LET pre == YearPrefix(y) IN {i \in DOMAIN tbl : HasPrefix(tbl[i].quoteNumber, pre)}

\* the greatest numeric suffix among the rows of year y (0 when there is none)
RECURSIVE MaxSuffixIn(_, _, _, _)
MaxSuffixIn(tbl, pre, lo, hi) ==
  IF lo > hi THEN 0
  ELSE IF lo = hi
       THEN (IF HasPrefix(tbl[lo].quoteNumber, pre)
             THEN SuffixNum(tbl[lo].quoteNumber, pre) ELSE 0)
  ELSE LET mid   == (lo + hi) \div 2
           left  == MaxSuffixIn(tbl, pre, lo, mid)
           right == MaxSuffixIn(tbl, pre, mid + 1, hi)
       IN IF left > right THEN left ELSE right

MaxSuffix(tbl, y) == MaxSuffixIn(tbl, YearPrefix(y), 1, Len(tbl))

\* what getNextQuoteNumber would return now
Allocation == getNextQuoteNumber(variant, quotes, year)

\* ------------------------------------------------------------------------
\* Claims
\* ------------------------------------------------------------------------
\* C1 (P1, uniqueness): in a run of createQuote calls made one after the
\* other, no two of the quotes created share a quoteNumber: the rows of the
\* table (every quote created so far) carry pairwise different numbers, and
\* so do the numbers inserted during the run.
UniqueInSequence ==
  /\ Cardinality(Numbers(quotes)) = Len(quotes)
  /\ Cardinality({issued[i] : i \in DOMAIN issued}) = Len(issued)

\* a call was turned away by the UNIQUE index after the thousandth quote of
\* the year had been stored
UniqueInSequenceWitness ==
  /\ result[Main] = "duplicate"
  /\ Len(issued) >= 1
  /\ Len(quotes) > SeedCount

\* C2: a quote number that was issued to some quote is never issued again
\* to a later quote, whatever createQuote, updateQuote and deleteQuote calls
\* lie between: the numbers inserted during a run are pairwise different.
NeverReissued ==
  \A i, j \in DOMAIN issued : i # j => issued[i] # issued[j]

\* C3: getNextQuoteNumber returns a string that no existing quote carries and
\* whose numeric suffix exceeds that of every existing quote of the current
\* year, in every table that createQuote calls made one after the other
\* produce.
NextIsFreshAndHigher ==
  LET pre  == YearPrefix(year)
      next == SuffixNum(Allocation, pre)
  IN /\ Allocation \notin Numbers(quotes)
     /\ \A i \in RowsOfYear(quotes, year) : SuffixNum(quotes[i].quoteNumber, pre) < next

\* a row inserted under a year's prefix has a numeric suffix above that of
\* every earlier row of that year
IncreasingStep ==
  Len(quotes') = Len(quotes) + 1 =>
    LET new == quotes'[Len(quotes')].quoteNumber
    IN \A y \in Years :
         LET pre == YearPrefix(y)
             suf == SuffixNum(new, pre)
         IN HasPrefix(new, pre) =>
              \A i \in RowsOfYear(quotes, y) : SuffixNum(quotes[i].quoteNumber, pre) < suf

\* C4 (P2, monotonicity within a year): createQuote calls made one after the
\* other insert, under one year's prefix, numbers of strictly increasing
\* numeric suffix, in creation order.
IncreasingWithinYear == [][IncreasingStep]_vars

\* two quotes were created under the second year's prefix, after quotes of
\* the first year
IncreasingWithinYearWitness ==
  /\ Cardinality(RowsOfYear(quotes, FirstYear + 1)) >= 2
  /\ RowsOfYear(quotes, FirstYear) # {}
  /\ Len(issued) >= 2

\* the number expected for suffix n of year y
Numbered(y, n) == YearPrefix(y) \o Numeral3(n)

\* C5 (P3, first of the year): when no stored quote has a quoteNumber that
\* starts with the current year's prefix, getNextQuoteNumber returns exactly
\* prefix + "001".
FirstOfYear ==
  RowsOfYear(quotes, year) = {} => Allocation = YearPrefix(year) \o <<"0", "0", "1">>

\* a createQuote call on an empty table holds the first number of the year
FirstOfYearWitness ==
  /\ quotes = <<>>
  /\ pc[Main] = "insert"
  /\ cand[Main] = YearPrefix(yearRead[Main]) \o <<"0", "0", "1">>

\* C6: when the highest existing quote number of the current year has numeric
\* suffix n with 1 <= n < 999, getNextQuoteNumber returns the prefix followed
\* by n + 1 written with exactly three digits.
NextPaddedToThree ==
  LET n == MaxSuffix(quotes, year)
  IN (RowsOfYear(quotes, year) # {} /\ 1 <= n /\ n < 999) =>
       /\ Allocation = Numbered(year, n + 1)
       /\ Len(Allocation) = Len(YearPrefix(year)) + 3

\* a createQuote call holds 010 after 009, or 100 after 099
NextPaddedToThreeWitness ==
  /\ pc[Main] = "insert"
  /\ year = yearRead[Main]
  /\ MaxSuffix(quotes, year) \in {9, 99}
  /\ cand[Main] \in {Numbered(year, 10), Numbered(year, 100)}

\* C7 (P4, pad growth): when the highest existing quote number of the current
\* year has suffix 999, the next allocation has suffix 1000: four digits, no
\* wraparound to 000 and no truncation.
PadGrowth ==
  (RowsOfYear(quotes, year) # {} /\ MaxSuffix(quotes, year) = 999) =>
     Allocation = YearPrefix(year) \o <<"1", "0", "0", "0">>

\* a createQuote call holds 1000 while 999 is the highest stored suffix
PadGrowthWitness ==
  /\ pc[Main] = "insert"
  /\ year = yearRead[Main]
  /\ MaxSuffix(quotes, year) = 999
  /\ cand[Main] = YearPrefix(year) \o <<"1", "0", "0", "0">>

\* C8: whenever the numerically highest stored quote number of the current
\* year has suffix n >= 1000, the next allocation has suffix n + 1 (after
\* 1000 is stored the next allocation is 1001).
BeyondPadFloor ==
  LET n == MaxSuffix(quotes, year)
  IN (RowsOfYear(quotes, year) # {} /\ n >= 1000) =>
       Allocation = YearPrefix(year) \o Numeral(n + 1)

\* the rows of a table that do not carry the prefix of a year before y
WithoutEarlierYears(tbl, y) ==
  SelectSeq(tbl, LAMBDA r :
    \A z \in Years : z < y => ~HasPrefix(r.quoteNumber, YearPrefix(z)))

\* C9 (P5, year rollover): quotes numbered under a prior year's prefix never
\* affect the allocation for the current year: the allocation is the one the
\* table without those quotes gives, and with quotes under the old prefix and
\* none under the new one it is <newPrefix>001.
YearRollover ==
  /\ Allocation = getNextQuoteNumber(variant, WithoutEarlierYears(quotes, year), year)
  /\ (\A i \in DOMAIN quotes : \E z \in Years :
        z < year /\ HasPrefix(quotes[i].quoteNumber, YearPrefix(z)))
       => Allocation = YearPrefix(year) \o <<"0", "0", "1">>

\* after the year changed, a createQuote call holds <newPrefix>001 while the
\* table holds quotes of the old year only
YearRolloverWitness ==
  /\ year > FirstYear
  /\ quotes # <<>>
  /\ RowsOfYear(quotes, FirstYear) = DOMAIN quotes
  /\ pc[Main] = "insert"
  /\ yearRead[Main] = year
  /\ cand[Main] = YearPrefix(year) \o <<"0", "0", "1">>

\* the insert of p's current or last createQuote call succeeded
InsertSucceeded(p) == result[p] \in {"inserted", "created", "undefined"}

\* p's and q's calls read the same table in the same year
SameRead(p, q) == readVer[p] = readVer[q] /\ yearRead[p] = yearRead[q]

\* of two calls that have both read and not yet inserted, the candidates are
\* equal and the first insert succeeds; the insert of a call whose rival read
\* the same table and has inserted fails on the duplicate and adds no row
RaceStep ==
  \A p, q \in Procs :
    p # q =>
      /\ (pc[p] = "insert" /\ pc[q] = "insert" /\ SameRead(p, q)) =>
           /\ cand[p] = cand[q]
           /\ pc'[p] # "insert" => result'[p] \in {"inserted", "created"}
      /\ (/\ pc[q] = "insert" /\ pc[p] # "insert"
          /\ InsertSucceeded(p) /\ SameRead(p, q)
          /\ pc'[q] # "insert") =>
           /\ result'[q] = "duplicate"
           /\ quotes' = quotes

\* C10 (P6, race): when two createQuote calls both complete their
\* getNextQuoteNumber read before either performs its insert, they compute
\* the same candidate number; exactly one insert succeeds and the other fails
\* with a duplicate-conflict error.
RaceOneWins == [][RaceStep]_vars

\* ------------------------------------------------------------------------
\* Failures of createQuote
\* ------------------------------------------------------------------------
\* p's call is about to insert a number the table already holds
InsertWillConflict(p) == pc[p] = "insert" /\ cand[p] \in Numbers(quotes)

\* the step moves p's call on from its pending insert
MovesOn(p) == <<pc[p], cand[p], result[p]>>' # <<pc[p], cand[p], result[p]>>

\* the step of a call whose insert is rejected ends the call with the
\* duplicate failure: no second allocation, no second insert, no row
NoRetryStep ==
  \A p \in Procs :
    (InsertWillConflict(p) /\ MovesOn(p)) =>
      /\ result'[p] = "duplicate"
      /\ pc'[p] = "idle"
      /\ cand'[p] = <<>>
      /\ creates' = creates
      /\ quotes' = quotes
      /\ issued' = issued
      /\ nextId' = nextId

\* C11: a createQuote call whose insert is rejected for a duplicate
\* quoteNumber is not retried: the call fails outright, never runs
\* getNextQuoteNumber a second time, and leaves the quotes table unchanged.
NoRetry == [][NoRetryStep]_vars

\* a call has failed on the duplicate after its rival, which read the same
\* table, inserted the number first
NoRetryWitness ==
  \E p, q \in Procs :
    /\ p # q
    /\ result[p] = "duplicate"
    /\ pc[p] = "idle"
    /\ result[q] \in {"inserted", "created"}
    /\ Len(issued) = 1

\* p's call holds a number that a successful read of getNextQuoteNumber
\* allocated
HoldsAllocated(p) == readVer[p] # NoRead /\ cand[p] # <<>>

\* the step adds a row to the quotes table
AddsRow == Len(quotes') > Len(quotes)

\* a failed read ends the call with no row added; a call stands before its
\* insert only with an allocated number, and every row added carries the
\* number the inserting call was allocated
ReadFailureStep ==
  /\ \A p \in Procs :
       /\ (result'[p] = "read_error" /\ creates' # creates) =>
            /\ quotes' = quotes
            /\ issued' = issued
            /\ pc'[p] # "insert"
       /\ pc'[p] = "insert" => HoldsAllocated(p)'
  /\ AddsRow =>
       \E p \in Procs :
         /\ pc[p] = "insert"
         /\ HoldsAllocated(p)
         /\ quotes' = Append(quotes, quotes'[Len(quotes')])
         /\ quotes'[Len(quotes')].quoteNumber = cand[p]

\* C12: if the read inside getNextQuoteNumber fails, the allocation fails,
\* the failure propagates out of createQuote and no quote is inserted: no
\* quote is ever created without a successfully allocated number.
ReadFailurePropagates == [][ReadFailureStep]_vars

\* a call has failed on its read and a later call has created a quote
ReadFailureWitness ==
  \E p, q \in Procs :
    /\ result[p] = "read_error"
    /\ pc[p] = "idle"
    /\ result[q] = "created"
    /\ creates >= 2
    /\ Len(issued) = 1

\* ------------------------------------------------------------------------
\* Reading, updating and deleting
\* ------------------------------------------------------------------------
\* the quote number stored under each id
NumberOf(tbl) == {<<tbl[i].id, tbl[i].quoteNumber>> : i \in DOMAIN tbl}

\* the step allocates: a createQuote call is started or receives a number
Allocates == creates' # creates \/ cand' # cand \/ issued' # issued

\* an update keeps every row and its number, a delete keeps the number of
\* every row it leaves, a read keeps the table, and none of them allocates
KeepsNumbersStep ==
  /\ updates' # updates =>
       /\ NumberOf(quotes') = NumberOf(quotes)
       /\ Len(quotes') = Len(quotes)
       /\ ~Allocates
  /\ deletes' # deletes =>
       /\ NumberOf(quotes') \subseteq NumberOf(quotes)
       /\ Len(quotes') < Len(quotes)
       /\ ~Allocates
  /\ (\E p \in Procs : result'[p] \in {"quote", "none"} /\ result'[p] # result[p]) =>
       /\ quotes' = quotes
       /\ ~Allocates

\* C13: reading, updating and deleting never re-allocate: updateQuote leaves
\* the quoteNumber of the updated quote and of every other quote unchanged,
\* and getQuote and deleteQuote change no quote's quoteNumber.
KeepsNumbers == [][KeepsNumbersStep]_vars

\* a quote has been updated in both of its writable columns, another has
\* been deleted and a getQuote has answered, with two quotes left
KeepsNumbersWitness ==
  /\ updates > 0
  /\ deletes > 0
  /\ result[Main] = "quote"
  /\ Len(quotes) = 2
  /\ \E i \in DOMAIN quotes : quotes[i].createdBy = "u2" /\ quotes[i].status = "sent"

\* ------------------------------------------------------------------------
\* The UNIQUE constraint under concurrent requests
\* ------------------------------------------------------------------------
\* no two rows of the table carry the same quoteNumber
TableUnique ==
  \A i, j \in DOMAIN quotes : i # j => quotes[i].quoteNumber # quotes[j].quoteNumber

\* the table is and stays free of duplicates, and an insert of a number the
\* table holds ends as the duplicate failure, distinct from every other
\* outcome, with the table as it was
UniqueStep ==
  /\ TableUnique
  /\ TableUnique'
  /\ \A p \in Procs :
       (pc[p] = "insert" /\ pc'[p] # "insert") =>
         IF cand[p] \in Numbers(quotes)
         THEN result'[p] = "duplicate" /\ quotes' = quotes
         ELSE result'[p] # "duplicate" /\ quotes' = Append(quotes, quotes'[Len(quotes')])

\* C14: after any interleaving of concurrent createQuote, updateQuote and
\* deleteQuote calls the quotes table never holds two rows with the same
\* quoteNumber: an insert whose quoteNumber already exists fails with a
\* distinguishable failure and adds no row.
AlwaysUnique == [][UniqueStep]_vars

\* two concurrent calls were given the same number; one has inserted it, the
\* other has failed on the duplicate, around an update and a delete
AlwaysUniqueWitness ==
  \E p, q \in Procs :
    /\ p # q
    /\ result[p] = "duplicate"
    /\ result[q] \in {"inserted", "created"}
    /\ updates > 0
    /\ deletes > 0
    /\ Len(quotes) = 1
    /\ Len(issued) = 1

\* ------------------------------------------------------------------------
\* Sessions and the isAuthenticated middleware (server/customAuth.ts)
\* ------------------------------------------------------------------------
\* the quotes side while the requests of customAuth.ts are looked at
QuotesAtRest ==
  /\ variant = "Q"
  /\ quotes = <<>>
  /\ nextId = 1
  /\ InitLocals

OutsideAuthAtRest == QuotesAtRest /\ ListsAtRest /\ FormsAtRest /\ ServicesAtRest

InitAuth == AuthAtRest /\ OutsideAuthAtRest

\* the session middleware: the user id of the saved session sid names
\* (NoUser when the store holds no such session)
SessionUserOf(sid) ==
  IF \E s \in sessions : s.sid = sid
  THEN (CHOOSE s \in sessions : s.sid = sid).user
  ELSE NoUser

\* storage.getUser(id): the row, or none
getUser(id) == {u \in users : u.id = id}

\* storage.searchUsers(email)
searchUsers(email) == {u \in users : u.email = email}

\* req.session.user = {...} and the save at the end of the response: into
\* the session the cookie names when the store holds it, into a new session
\* otherwise
SaveSessionUser(id) ==
  IF \E s \in sessions : s.sid = cookie
  THEN /\ sessions' = {s \in sessions : s.sid # cookie} \cup {[sid |-> cookie, user |-> id]}
       /\ dead' = dead \ {cookie}
       /\ UNCHANGED <<cookie, nextSid>>
  ELSE /\ sessions' = sessions \cup {[sid |-> nextSid, user |-> id]}
       /\ cookie' = nextSid
       /\ nextSid' = nextSid + 1
       /\ UNCHANGED dead

\* a login that would not compare the password
loginUnverified(r, email, password) ==
  /\ apc[r] = "idle"
  /\ logins < MaxLogins
  /\ logins' = logins + 1
  /\ IF ~dbUp
     THEN /\ resp' = [resp EXCEPT ![r] = "500"]
          /\ UNCHANGED <<sessions, cookie, nextSid, dead>>
     ELSE LET found == searchUsers(email)
          IN IF found = {}
             THEN /\ resp' = [resp EXCEPT ![r] = "401"]
                  /\ UNCHANGED <<sessions, cookie, nextSid, dead>>
             ELSE /\ SaveSessionUser((CHOOSE u \in found : TRUE).id)
                  /\ resp' = [resp EXCEPT ![r] = "signed in"]
  /\ UNCHANGED <<users, destroying, dbUp, apc, reqSid, reqUser, requests, removals>>
  /\ UNCHANGED outsideAuth

\* POST /api/auth/login
login(r, email, password) ==
  /\ apc[r] = "idle"
  /\ logins < MaxLogins
  /\ logins' = logins + 1
  /\ IF ~dbUp
     THEN /\ resp' = [resp EXCEPT ![r] = "500"]
          /\ UNCHANGED <<sessions, cookie, nextSid, dead>>
     ELSE LET found == searchUsers(email)
          IN IF found = {} \/ ~comparePassword(password, (CHOOSE u \in found : TRUE).passwordHash)
             THEN /\ resp' = [resp EXCEPT ![r] = "401"]
                  /\ UNCHANGED <<sessions, cookie, nextSid, dead>>
             ELSE /\ SaveSessionUser((CHOOSE u \in found : TRUE).id)
                  /\ resp' = [resp EXCEPT ![r] = "signed in"]
  /\ UNCHANGED <<users, destroying, dbUp, apc, reqSid, reqUser, requests, removals>>
  /\ UNCHANGED outsideAuth

\* isAuthenticated, its first check: if (!req.session?.user?.id) return 401
isAuthenticated(r) ==
  /\ apc[r] = "idle"
  /\ requests < MaxRequests
  /\ requests' = requests + 1
  /\ IF SessionUserOf(cookie) = NoUser
     THEN /\ resp' = [resp EXCEPT ![r] = "401"]
          /\ UNCHANGED <<apc, reqSid, reqUser>>
     ELSE /\ apc' = [apc EXCEPT ![r] = "getUser"]
          /\ reqSid' = [reqSid EXCEPT ![r] = cookie]
          /\ reqUser' = [reqUser EXCEPT ![r] = SessionUserOf(cookie)]
          /\ resp' = [resp EXCEPT ![r] = "none"]
  /\ UNCHANGED <<users, sessions, cookie, destroying, dead, dbUp, nextSid,
                 logins, removals>>
  /\ UNCHANGED outsideAuth

\* an isAuthenticated that would answer 401 for a missing user and leave the
\* session in the store
VerifyUserKeepsSession(r) ==
  /\ apc[r] = "getUser"
  /\ apc' = [apc EXCEPT ![r] = "idle"]
  /\ reqSid' = [reqSid EXCEPT ![r] = NoSid]
  /\ reqUser' = [reqUser EXCEPT ![r] = NoUser]
  /\ resp' = [resp EXCEPT ![r] =
                IF ~dbUp THEN "500"
                ELSE IF getUser(reqUser[r]) = {} THEN "401" ELSE "next"]
  /\ UNCHANGED <<destroying, dead>>
  /\ UNCHANGED <<users, sessions, cookie, dbUp, nextSid, requests, logins, removals>>
  /\ UNCHANGED outsideAuth

\* an isAuthenticated that would not look the user up again
VerifyUserTrusting(r) ==
  /\ apc[r] = "getUser"
  /\ apc' = [apc EXCEPT ![r] = "idle"]
  /\ reqSid' = [reqSid EXCEPT ![r] = NoSid]
  /\ reqUser' = [reqUser EXCEPT ![r] = NoUser]
  /\ resp' = [resp EXCEPT ![r] = "next"]
  /\ UNCHANGED <<destroying, dead>>
  /\ UNCHANGED <<users, sessions, cookie, dbUp, nextSid, requests, logins, removals>>
  /\ UNCHANGED outsideAuth

\* isAuthenticated after await storage.getUser(req.session.user.id): 500
\* when the read threw; req.session.destroy(() => {}) and 401 when there is
\* no such user, the response not waiting for the store; next() otherwise
VerifyUser(r) ==
  /\ apc[r] = "getUser"
  /\ apc' = [apc EXCEPT ![r] = "idle"]
  /\ reqSid' = [reqSid EXCEPT ![r] = NoSid]
  /\ reqUser' = [reqUser EXCEPT ![r] = NoUser]
  /\ IF ~dbUp
     THEN /\ resp' = [resp EXCEPT ![r] = "500"]
          /\ UNCHANGED <<destroying, dead>>
     ELSE IF getUser(reqUser[r]) = {}
          THEN /\ resp' = [resp EXCEPT ![r] = "401"]
               /\ destroying' = destroying \cup {reqSid[r]}
               /\ dead' = IF SessionUserOf(reqSid[r]) = reqUser[r]
                          THEN dead \cup {reqSid[r]} ELSE dead
          ELSE /\ resp' = [resp EXCEPT ![r] = "next"]
               /\ UNCHANGED <<destroying, dead>>
  /\ UNCHANGED <<users, sessions, cookie, dbUp, nextSid, requests, logins, removals>>
  /\ UNCHANGED outsideAuth

\* the session store runs a destroy it was handed
DestroyLands(sid) ==
  /\ sid \in destroying
  /\ destroying' = destroying \ {sid}
  /\ sessions' = {s \in sessions : s.sid # sid}
  /\ UNCHANGED <<users, cookie, dead, dbUp, apc, reqSid, reqUser, resp,
                 nextSid, requests, logins, removals>>
  /\ UNCHANGED outsideAuth

\* a users row is removed in the database (no request handler does it)
RemoveUser(id) ==
  /\ removals < MaxRemovals
  /\ getUser(id) # {}
  /\ removals' = removals + 1
  /\ users' = users \ getUser(id)
  /\ UNCHANGED <<sessions, cookie, destroying, dead, dbUp, apc, reqSid,
                 reqUser, resp, nextSid, requests, logins>>
  /\ UNCHANGED outsideAuth

\* the database becomes unreachable, or reachable again
Outage ==
  /\ dbUp' = ~dbUp
  /\ UNCHANGED <<users, sessions, cookie, destroying, dead, apc, reqSid,
                 reqUser, resp, nextSid, requests, logins, removals>>
  /\ UNCHANGED outsideAuth

NextAuth ==
  \/ \E r \in Reqs, email \in Emails, password \in Passwords : login(r, email, password)
  \/ \E r \in Reqs : isAuthenticated(r)
  \/ \E r \in Reqs : VerifyUser(r)
  \/ \E sid \in destroying : DestroyLands(sid)
  \/ \E id \in Users : RemoveUser(id)
  \/ Outage

SpecAuth == InitAuth /\ [][NextAuth]_vars

\* the step hands request r to the protected handler (next() is called)
Invoked(r) == resp'[r] = "next" /\ <<apc[r], resp[r]>> # <<apc'[r], resp'[r]>>

\* the step ends the user lookup of request r
LookupEnds(r) == apc[r] = "getUser" /\ apc'[r] = "idle"

\* next() only for a request whose session carried a user id that the users
\* table still holds; 401 without a session user; 500 when the lookup
\* threw; 401 when the user is gone
AuthGateStep ==
  /\ \A r \in Reqs :
       /\ Invoked(r) =>
            /\ LookupEnds(r)
            /\ reqUser[r] # NoUser
            /\ getUser(reqUser[r]) # {}
            /\ dbUp
       /\ (LookupEnds(r) /\ ~dbUp) => resp'[r] = "500"
       /\ (LookupEnds(r) /\ dbUp /\ getUser(reqUser[r]) = {}) => resp'[r] = "401"
       /\ apc'[r] = "getUser" => reqUser'[r] # NoUser
  /\ (requests' # requests /\ SessionUserOf(cookie) = NoUser) =>
       /\ apc' = apc
       /\ \A r \in Reqs : ~Invoked(r)
       /\ \E r \in Reqs : resp'[r] = "401"

\* C15: isAuthenticated calls next only when the session carries a user id
\* and that user still exists in the store; a request with no session user
\* is answered 401 and a storage error during the check is answered 500,
\* and in neither case is the protected handler invoked.
AuthGate == [][AuthGateStep]_vars

\* of two requests of a signed-in browser one has reached the handler and the
\* other was answered 500
AuthGateWitness ==
  \E r, q \in Reqs :
    /\ r # q
    /\ resp[r] = "next"
    /\ resp[q] = "500"
    /\ requests >= 2
    /\ SessionUserOf(cookie) # NoUser

\* the step starts a request through isAuthenticated
RequestStarts == requests' # requests

\* the request the step starts is rejected by the first check
RejectedAtFirstCheck ==
  /\ apc' = apc
  /\ \E r \in Reqs : resp'[r] = "401"
  /\ \A r \in Reqs : ~Invoked(r)

\* C16 as stated: when a session identifies a user that no longer exists,
\* the next request through isAuthenticated destroys that session and
\* answers 401, so every later request carrying that session is rejected at
\* the first check (no session user) without the handler running.
DeadSessionFirstCheck ==
  [][(RequestStarts /\ cookie \in dead) => RejectedAtFirstCheck]_vars

\* a lookup that finds no user answers 401 and hands the session to the
\* store for destruction; a later request that carries the session is
\* rejected by the first check when the store has run the destroy, and
\* otherwise goes to a lookup of the missing user, which never calls next
DeadSessionStep ==
  /\ \A r \in Reqs :
       /\ (LookupEnds(r) /\ dbUp /\ getUser(reqUser[r]) = {}) =>
            /\ resp'[r] = "401"
            /\ reqSid[r] \in destroying'
       /\ (LookupEnds(r) /\ getUser(reqUser[r]) = {}) => resp'[r] \in {"401", "500"}
  /\ \A id \in Users : getUser(id) = {} => users' \cap {u \in users' : u.id = id} = {}
  /\ \A sid \in dead' \ destroying' : \A s \in sessions' : s.sid # sid
  /\ (RequestStarts /\ cookie \in dead) =>
       IF SessionUserOf(cookie) = NoUser
       THEN RejectedAtFirstCheck
       ELSE \E r \in Reqs :
              /\ apc[r] = "idle"
              /\ apc'[r] = "getUser"
              /\ getUser(reqUser'[r]) = {}

\* C16, amended: the request that finds the session's user missing answers
\* 401 and issues the destroy without waiting for the store; every later
\* request that carries the session is rejected without the handler
\* running, by the first check once the store has removed the session and
\* by the user lookup until then.
DeadSession == [][DeadSessionStep]_vars

\* the session of a removed user was destroyed, the store has run the
\* destroy, and a later request with the same cookie was answered 401
DeadSessionWitness ==
  /\ cookie \in dead
  /\ cookie \notin destroying
  /\ SessionUserOf(cookie) = NoUser
  /\ requests >= 2
  /\ removals > 0
  /\ \A r \in Reqs : resp[r] = "401" /\ apc[r] = "idle"

\* ------------------------------------------------------------------------
\* The list functions: getClients, searchClients, getQuotes, getMeetings
\* ------------------------------------------------------------------------
\* a column that holds NULL
Null == <<"NULL">>

Names == {<<"a", "b">>, <<"b">>}
Companies == {Null, <<"a">>}
Queries == {<<>>, <<"a">>, <<"_", "b">>}

\* SQL LIKE on strings of one case: % stands for any string, _ for any one
\* character; NULL is like nothing
RECURSIVE LikePattern(_, _)
LikePattern(s, pat) ==
  IF pat = <<>> THEN s = <<>>
  ELSE IF Head(pat) = "%"
       THEN LikePattern(s, Tail(pat)) \/ (s # <<>> /\ LikePattern(Tail(s), pat))
       ELSE /\ s # <<>>
            /\ (Head(pat) = "_" \/ Head(pat) = Head(s))
            /\ LikePattern(Tail(s), Tail(pat))

likeColumn(col, pat) == col # Null /\ LikePattern(col, pat)

\* orderBy(desc(createdAt)) (desc(scheduledAt) for meetings) of rows kept in
\* ascending order
RECURSIVE Descending(_)
Descending(rows) ==
  IF rows = <<>> THEN <<>> ELSE Append(Descending(Tail(rows)), Head(rows))

ClientRow(id, name, company, owner) ==
  [id |-> id, name |-> name, company |-> company, email |-> Null, createdBy |-> owner]

MeetingRow(id, owner) == [id |-> id, createdBy |-> owner]

getClients(tbl, userId, isAdmin) ==
  IF ~isAdmin
  THEN Descending(SelectSeq(tbl, LAMBDA c : c.createdBy = userId))
  ELSE Descending(tbl)

\* a searchClients that would leave the owner condition out
searchClientsOfAll(tbl, query, userId, isAdmin) ==
  LET searchTerm == <<"%">> \o query \o <<"%">>
  IN Descending(SelectSeq(tbl, LAMBDA c :
       \/ likeColumn(c.name, searchTerm)
       \/ likeColumn(c.company, searchTerm)
       \/ likeColumn(c.email, searchTerm)))

searchClients(tbl, query, userId, isAdmin) ==
  LET searchTerm == <<"%">> \o query \o <<"%">>
  IN Descending(SelectSeq(tbl, LAMBDA c :
       /\ \/ likeColumn(c.name, searchTerm)
          \/ likeColumn(c.company, searchTerm)
          \/ likeColumn(c.email, searchTerm)
       /\ (~isAdmin => c.createdBy = userId)))

getQuotes(tbl, userId, isAdmin) ==
  IF ~isAdmin
  THEN Descending(SelectSeq(tbl, LAMBDA q : q.createdBy = userId))
  ELSE Descending(tbl)

getMeetings(tbl, userId, isAdmin) ==
  IF ~isAdmin
  THEN Descending(SelectSeq(tbl, LAMBDA m : m.createdBy = userId))
  ELSE Descending(tbl)

\* the sequences of at most n elements of S
SeqsUpTo(S, n) == UNION {[1..k -> S] : k \in 0..n}

\* the tables a list request may find: every row has an id of its own
InitLists ==
  /\ AuthAtRest
  /\ FormsAtRest
  /\ ServicesAtRest
  /\ InitLocals
  /\ variant = "Q"
  /\ \E owners \in SeqsUpTo(Users, MaxListedQuotes) :
       /\ quotes = [i \in DOMAIN owners |->
                      QuoteRow(i, Prefix("Q", FirstYear) \o padStart(toString(Num(i)), PadWidth, "0"),
                               [createdBy |-> owners[i], status |-> "draft"])]
       /\ nextId = Len(owners) + 1
  /\ \E cs \in SeqsUpTo(Names \X Users, MaxClients), co \in Companies :
       clients = [i \in DOMAIN cs |-> ClientRow(i, cs[i][1], co, cs[i][2])]
  /\ \E owners \in SeqsUpTo(Users, MaxMeetings) :
       meetings = [i \in DOMAIN owners |-> MeetingRow(i, owners[i])]
  /\ listed = NotListed

ListClients(userId, isAdmin) ==
  /\ listed' = [op |-> "getClients", userId |-> userId, isAdmin |-> isAdmin,
                query |-> <<>>, rows |-> getClients(clients, userId, isAdmin)]
  /\ UNCHANGED <<clients, meetings, quoteVars>>
  /\ UNCHANGED outsideLists

SearchClients(query, userId, isAdmin) ==
  /\ listed' = [op |-> "searchClients", userId |-> userId, isAdmin |-> isAdmin,
                query |-> query,
                rows |-> searchClients(clients, query, userId, isAdmin)]
  /\ UNCHANGED <<clients, meetings, quoteVars>>
  /\ UNCHANGED outsideLists

ListQuotes(userId, isAdmin) ==
  /\ listed' = [op |-> "getQuotes", userId |-> userId, isAdmin |-> isAdmin,
                query |-> <<>>, rows |-> getQuotes(quotes, userId, isAdmin)]
  /\ UNCHANGED <<clients, meetings, quoteVars>>
  /\ UNCHANGED outsideLists

ListMeetings(userId, isAdmin) ==
  /\ listed' = [op |-> "getMeetings", userId |-> userId, isAdmin |-> isAdmin,
                query |-> <<>>, rows |-> getMeetings(meetings, userId, isAdmin)]
  /\ UNCHANGED <<clients, meetings, quoteVars>>
  /\ UNCHANGED outsideLists

NextLists ==
  \/ \E u \in Users, a \in BOOLEAN : ListClients(u, a)
  \/ \E q \in Queries, u \in Users, a \in BOOLEAN : SearchClients(q, u, a)
  \/ \E u \in Users, a \in BOOLEAN : ListQuotes(u, a)
  \/ \E u \in Users, a \in BOOLEAN : ListMeetings(u, a)

SpecLists == InitLists /\ [][NextLists]_vars

\* the rows of a sequence, as a set
RowSet(rows) == {rows[i] : i \in DOMAIN rows}

\* the table the last list request ran over
ListedTable ==
  CASE listed.op \in {"getClients", "searchClients"} -> clients
    [] listed.op = "getQuotes" -> quotes
    [] listed.op = "getMeetings" -> meetings
    [] OTHER -> <<>>

\* what the function called last returns to user u
ListedFor(u, isAdmin) ==
  CASE listed.op = "getClients" -> getClients(clients, u, isAdmin)
    [] listed.op = "searchClients" -> searchClients(clients, listed.query, u, isAdmin)
    [] listed.op = "getQuotes" -> getQuotes(quotes, u, isAdmin)
    [] listed.op = "getMeetings" -> getMeetings(meetings, u, isAdmin)
    [] OTHER -> <<>>

\* C17: getQuotes, getClients, getMeetings and searchClients called with
\* isAdmin = false return only rows whose createdBy equals the userId passed
\* in (for the get functions: all of them); called with isAdmin = true they
\* return the rows of every owner.
OwnerOrAdmin ==
  listed.op # "none" =>
    /\ ~listed.isAdmin =>
         /\ \A i \in DOMAIN listed.rows : listed.rows[i].createdBy = listed.userId
         /\ RowSet(listed.rows) \subseteq RowSet(ListedTable)
         /\ listed.op # "searchClients" =>
              RowSet(listed.rows) = {r \in RowSet(ListedTable) : r.createdBy = listed.userId}
    /\ listed.isAdmin =>
         /\ RowSet(listed.rows) = UNION {RowSet(ListedFor(u, FALSE)) : u \in Users}
         /\ listed.op # "searchClients" => RowSet(listed.rows) = RowSet(ListedTable)

\* a search by a user who is not an admin has returned a row while the
\* table holds a matching row of another owner
OwnerOrAdminWitness ==
  /\ listed.op = "searchClients"
  /\ ~listed.isAdmin
  /\ listed.rows # <<>>
  /\ RowSet(searchClients(clients, listed.query, listed.userId, TRUE)) # RowSet(listed.rows)

\* ------------------------------------------------------------------------
\* The quote forms (QuoteForm, QuickQuoteForm)
\* ------------------------------------------------------------------------
\* Money is counted in thousandths, so that a rate in whole cents has an
\* exact tenth; a quantity is a plain number.
Mills == 1000

\* what a user may leave in a quantity field and in a rate field
\* (valueAsNumber: NaN for an empty field)
Quantities == {NaN, Num(0), Num(1), Num(2)}
Rates == {NaN, Num(0 - 10), Num(0), Num(10), Num(1250)}

\* what a user may leave in the estimated-value field (type="number"): the
\* empty string or a valid number
EstimatedValues ==
  {<<>>, <<"0">>, <<"1", "2", ".", "5", "0">>, <<".", "5">>, <<"-", "3">>}

\* a * b, a + b and a * 0.1 of JavaScript numbers
Times(a, b) == IF a.nan \/ b.nan THEN NaN ELSE Num(a.val * b.val)
Plus(a, b) == IF a.nan \/ b.nan THEN NaN ELSE Num(a.val + b.val)
TimesTenth(a) == IF a.nan THEN NaN ELSE Num(a.val \div 10)

\* the first three digits of a fraction, as thousandths
FractionMills(ds) ==
  LET d(k) == IF k <= Len(ds) THEN DigitVal(ds[k]) ELSE 0
  IN 100 * d(1) + 10 * d(2) + d(3)

\* the longest prefix of s made of digits
RECURSIVE LeadingDigits(_)
LeadingDigits(s) ==
  IF s = <<>> \/ ~IsDigit(Head(s)) THEN <<>>
  ELSE <<Head(s)>> \o LeadingDigits(Tail(s))

\* parseFloat(string), in thousandths: optional sign, digits, optional
\* fraction; NaN when there is no digit
parseFloat(s) ==
  LET neg   == s # <<>> /\ Head(s) = "-"
      body  == IF neg THEN Tail(s) ELSE s
      whole == LeadingDigits(body)
      rest  == SubSeq(body, Len(whole) + 1, Len(body))
      frac  == IF rest # <<>> /\ Head(rest) = "." THEN LeadingDigits(Tail(rest)) ELSE <<>>
      mag   == Mills * DigitRun(whole, 0) + FractionMills(frac)
  IN IF whole = <<>> /\ frac = <<>> THEN NaN
     ELSE IF neg THEN Num(0 - mag) ELSE Num(mag)

\* the fraction digits of m thousandths, without trailing zeros
FractionDigits(m) ==
  IF m % 1000 = 0 THEN <<>>
  ELSE IF m % 100 = 0 THEN <<Digits[(m \div 100) + 1]>>
  ELSE IF m % 10 = 0 THEN <<Digits[(m \div 100) + 1], Digits[((m \div 10) % 10) + 1]>>
  ELSE <<Digits[(m \div 100) + 1], Digits[((m \div 10) % 10) + 1], Digits[(m % 10) + 1]>>

\* Number.prototype.toString of an amount of money
moneyToString(n) ==
  IF n.nan THEN <<"N", "a", "N">>
  ELSE LET mag  == IF n.val < 0 THEN 0 - n.val ELSE n.val
           frac == FractionDigits(mag % Mills)
           text == Decimal(mag \div Mills) \o (IF frac = <<>> THEN <<>> ELSE <<".">> \o frac)
       IN IF n.val < 0 THEN <<"-">> \o text ELSE text

\* x || 0
OrZero(n) == IF n.nan THEN Num(0) ELSE n

\* items.reduce((sum, item) => sum + item.quantity * item.rate, 0)
RECURSIVE SumOfItems(_)
SumOfItems(items) ==
  IF items = <<>> THEN Num(0)
  ELSE Plus(SumOfItems(SubSeq(items, 1, Len(items) - 1)),
            Times(items[Len(items)].quantity, items[Len(items)].rate))

\* a calculateTotals that would keep the total it finds
calculateTotalsStale(f) ==
  LET subtotal == SumOfItems(f.items)
  IN [f EXCEPT !.subtotal = subtotal, !.tax = TimesTenth(subtotal)]

\* calculateTotals(): subtotal, 10% tax, total
calculateTotals(f) ==
  LET subtotal == SumOfItems(f.items)
      tax      == TimesTenth(subtotal)
  IN [f EXCEPT !.subtotal = subtotal, !.tax = tax, !.total = Plus(subtotal, tax)]

\* updateItemAmount(index): the amount of the item, then the totals
updateItemAmount(f, index) ==
  LET quantity == f.items[index].quantity
      rate     == f.items[index].rate
  IN calculateTotals([f EXCEPT !.items[index].amount = Times(quantity, rate)])

\* quoteFormSchema on the numbers of the form: z.number() rejects NaN
IsNumber(n) == ~n.nan
Valid(f) ==
  /\ Len(f.items) >= 1
  /\ \A i \in DOMAIN f.items :
       /\ IsNumber(f.items[i].quantity) /\ f.items[i].quantity.val >= 1
       /\ IsNumber(f.items[i].rate) /\ f.items[i].rate.val >= 0
       /\ IsNumber(f.items[i].amount) /\ f.items[i].amount.val >= 0
  /\ IsNumber(f.subtotal) /\ IsNumber(f.tax) /\ IsNumber(f.total)

\* the body QuoteForm sends
QuoteFormPayload(f) ==
  [form |-> "QuoteForm", items |-> f.items,
   subtotal |-> moneyToString(f.subtotal),
   tax |-> moneyToString(f.tax),
   total |-> moneyToString(f.total)]

\* the body QuickQuoteForm sends
QuickQuotePayload(estimatedValue) ==
  [form |-> "QuickQuoteForm",
   items |-> <<[quantity |-> Num(1),
                rate |-> OrZero(parseFloat(estimatedValue)),
                amount |-> OrZero(parseFloat(estimatedValue))]>>,
   subtotal |-> estimatedValue,
   tax |-> <<"0">>,
   total |-> estimatedValue]

\* QuoteForm opened on a new quote, or on the stored quote of a quick quote
\* (form.reset with the quote's items and parseFloat of its amounts)
InitForms ==
  /\ QuotesAtRest
  /\ AuthAtRest
  /\ ListsAtRest
  /\ ServicesAtRest
  /\ quick = <<>>
  /\ payload = NoPayload
  /\ \/ form = DefaultValues
     \/ \E ev \in EstimatedValues \ {<<>>} :
          LET stored == QuickQuotePayload(ev)
          IN form = [items |-> stored.items,
                     subtotal |-> parseFloat(stored.subtotal),
                     tax |-> parseFloat(stored.tax),
                     total |-> parseFloat(stored.total)]

\* the quantity field of item index changes
EditQuantity(index, v) ==
  /\ payload = NoPayload
  /\ index \in DOMAIN form.items
  /\ form' = updateItemAmount([form EXCEPT !.items[index].quantity = v], index)
  /\ UNCHANGED <<quick, payload>>
  /\ UNCHANGED outsideForms

\* the rate field of item index changes
EditRate(index, v) ==
  /\ payload = NoPayload
  /\ index \in DOMAIN form.items
  /\ form' = updateItemAmount([form EXCEPT !.items[index].rate = v], index)
  /\ UNCHANGED <<quick, payload>>
  /\ UNCHANGED outsideForms

\* Add Item: append({description: "", quantity: 1, rate: 0, amount: 0})
AppendItem ==
  /\ payload = NoPayload
  /\ Len(form.items) < MaxItems
  /\ form' = [form EXCEPT !.items = Append(form.items, DefaultItem)]
  /\ UNCHANGED <<quick, payload>>
  /\ UNCHANGED outsideForms

\* the remove button of item index (shown while there is more than one
\* item): remove(index); calculateTotals()
RemoveItem(index) ==
  /\ payload = NoPayload
  /\ Len(form.items) > 1
  /\ index \in DOMAIN form.items
  /\ form' = calculateTotals(
       [form EXCEPT !.items = SubSeq(form.items, 1, index - 1)
                                \o SubSeq(form.items, index + 1, Len(form.items))])
  /\ UNCHANGED <<quick, payload>>
  /\ UNCHANGED outsideForms

\* form.handleSubmit(onSubmit): the request is sent when the values pass
\* quoteFormSchema
SubmitQuoteForm ==
  /\ payload = NoPayload
  /\ Valid(form)
  /\ payload' = QuoteFormPayload(form)
  /\ UNCHANGED <<form, quick>>
  /\ UNCHANGED outsideForms

\* the estimated-value field of QuickQuoteForm changes
TypeEstimatedValue(v) ==
  /\ payload = NoPayload
  /\ quick' = v
  /\ UNCHANGED <<form, payload>>
  /\ UNCHANGED outsideForms

\* handleSubmit of QuickQuoteForm: nothing is sent without an estimated value
SubmitQuickQuote ==
  /\ payload = NoPayload
  /\ quick # <<>>
  /\ payload' = QuickQuotePayload(quick)
  /\ UNCHANGED <<form, quick>>
  /\ UNCHANGED outsideForms

\* the request is answered
Answered ==
  /\ payload # NoPayload
  /\ payload' = NoPayload
  /\ UNCHANGED <<form, quick>>
  /\ UNCHANGED outsideForms

NextForms ==
  \/ \E i \in 1..MaxItems, v \in Quantities : EditQuantity(i, v)
  \/ \E i \in 1..MaxItems, v \in Rates : EditRate(i, v)
  \/ AppendItem
  \/ \E i \in 1..MaxItems : RemoveItem(i)
  \/ SubmitQuoteForm
  \/ \E v \in EstimatedValues : TypeEstimatedValue(v)
  \/ SubmitQuickQuote
  \/ Answered

SpecForms == InitForms /\ [][NextForms]_vars

\* the number a decimal string of the request body denotes, in thousandths
AmountOf(text) == parseFloat(text)

\* C18: every quote payload submitted by QuoteForm, after any sequence of
\* quantity and rate edits, item additions and removals, and by
\* QuickQuoteForm satisfies total = subtotal + tax and, for each line item,
\* amount = quantity * rate.
PayloadConsistent ==
  payload # NoPayload =>
    /\ IsNumber(AmountOf(payload.total))
    /\ AmountOf(payload.total) = Plus(AmountOf(payload.subtotal), AmountOf(payload.tax))
    /\ \A i \in DOMAIN payload.items :
         /\ IsNumber(payload.items[i].amount)
         /\ payload.items[i].amount = Times(payload.items[i].quantity, payload.items[i].rate)

\* QuoteForm has sent a quote of two items, one of them edited to quantity 2
\* at a rate of 12.50, with a tax that is not zero
PayloadConsistentWitness ==
  /\ payload # NoPayload
  /\ payload.form = "QuoteForm"
  /\ Len(payload.items) = 2
  /\ \E i \in DOMAIN payload.items : payload.items[i].amount = Num(2500)
  /\ payload.tax = <<"0", ".", "2", "5">>
  /\ payload.total = <<"2", ".", "7", "5">>

\* ------------------------------------------------------------------------
\* The allocator's read
\* ------------------------------------------------------------------------
\* the row the read of getNextQuoteNumber returns now (0 when none matches)
LastRead == LastQuote(quotes, Prefix(variant, year), 1, Len(quotes))

\* C19: the allocator's read (prefix match, order by quoteNumber descending
\* as a string, limit 1) returns the quote with the numerically greatest
\* suffix among the quotes of the current prefix, for every set of stored
\* numbers the allocator itself can produce, 999 and 1000 included.
ReadReturnsGreatest ==
  LastRead # 0 =>
    SuffixNum(quotes[LastRead].quoteNumber, YearPrefix(year)) = MaxSuffix(quotes, year)

\* the part of a quote number behind the prefix of the current year
SuffixOf(qn) == SubSeq(qn, Len(YearPrefix(year)) + 1, Len(qn))

\* the string is a non-empty run of digits
AllDigits(s) == s # <<>> /\ \A k \in DOMAIN s : IsDigit(s[k])

\* the row the allocator's read returns carries a suffix that is no number
ReadsMalformed == LastRead # 0 /\ ~AllDigits(SuffixOf(quotes[LastRead].quoteNumber))

\* C20: when the highest matching existing quote number has a suffix that
\* does not parse as digits, allocation is a hard failure: getNextQuoteNumber
\* rejects and createQuote inserts no quote, rather than returning a number
\* built from the unparsable suffix or defaulting to 001.
MalformedRejected ==
  [][(creates' # creates /\ ReadsMalformed) =>
       /\ \A p \in Procs : pc'[p] # "insert"
       /\ cand' = cand]_vars

\* ------------------------------------------------------------------------
\* The status of a quote (QuoteForm in edit mode, updateQuote)
\* ------------------------------------------------------------------------
\* z.enum(["draft", "sent", "accepted", "rejected"]): the items of the
\* status select
QuoteStatuses == {"draft", "sent", "accepted", "rejected"}

\* the status column of the row with that id, "none" when there is no row
StatusIn(tbl, id) ==
  IF SelectWhereId(tbl, id) = <<>> THEN "none" ELSE SelectWhereId(tbl, id)[1].status

\* QuoteForm opened on quote id, a status picked in the select, the form
\* submitted: createQuoteMutation sends PUT /api/quotes/:id, updateQuote
\* sets the columns and returns the row it reads back
createQuoteMutation(id, status) ==
  /\ updates < MaxSaves
  /\ quotes' = UpdateWhereId(quotes, id, [status |-> status])
  /\ saved' = [id |-> id, from |-> StatusIn(quotes, id), status |-> status,
               returned |-> SelectWhereId(quotes', id)]
  /\ updates' = updates + 1
  /\ UNCHANGED <<variant, year, nextId, pc, cand, input, yearRead, readVer,
                 result, issued, creates, deletes>>
  /\ UNCHANGED outsideSaves

\* the year's first two quotes, both drafts
InitStatus ==
  /\ variant \in Variants
  /\ quotes = Seeded(variant, FirstYear, 2)
  /\ nextId = 3
  /\ InitLocals
  /\ OutsideQuotesAtRest

\* quotes are saved from the form, one save after the other, also a quote
\* that was deleted after the form was opened
NextStatus ==
  \/ \E id \in 1 .. (nextId - 1), status \in QuoteStatuses : createQuoteMutation(id, status)
  \/ \E id \in Ids : deleteQuote(id)

SpecStatus == InitStatus /\ [][NextStatus]_vars

\* a step saves quote id with status t
Saves(id, t) ==
  /\ updates' = updates + 1
  /\ saved'.id = id
  /\ saved'.status = t

UnguardedStep ==
  \A id \in Ids, s \in QuoteStatuses, t \in QuoteStatuses :
    (StatusIn(quotes, id) = s /\ Saves(id, t)) =>
      /\ saved'.returned # <<>>
      /\ saved'.returned[1].id = id
      /\ saved'.returned[1].status = t
      /\ StatusIn(quotes', id) = t

\* C21: whatever the status s of a stored quote and whatever the status t
\* sent, backward moves included, updateQuote returns the quote and leaves
\* it in status t
StatusUnguarded == [][UnguardedStep]_vars

\* a quote that was accepted has been saved as a draft again
StatusUnguardedWitness ==
  /\ saved.from = "accepted"
  /\ saved.status = "draft"
  /\ saved.returned # <<>>
  /\ StatusIn(quotes, saved.id) = "draft"

\* ------------------------------------------------------------------------
\* getDashboardStats
\* ------------------------------------------------------------------------
Instants == 0 .. MaxInstant
\* new Date(now.getFullYear(), now.getMonth(), 1), months of two instants
startOfMonth(now) == now - (now % 2)

\* the values of the total column: DECIMAL(12,2), read as strings
Totals == {<<"1", "0", ".", "5", "0">>, <<"2", ".", "2", "5">>}
MeetingStatuses == {"scheduled", "completed"}
DashQuoteStatuses == {"draft", "sent", "accepted"}

\* the columns of a quote and of a meeting the dashboard reads
StatQuoteRow(id, owner, status, total, updatedAt) ==
  [id |-> id,
   quoteNumber |-> Prefix("Q", FirstYear) \o padStart(toString(Num(id)), PadWidth, "0"),
   createdBy |-> owner, status |-> status, total |-> total, updatedAt |-> updatedAt]

StatMeetingRow(id, owner, status, scheduledAt) ==
  [id |-> id, createdBy |-> owner, status |-> status, scheduledAt |-> scheduledAt]

\* count(): the number of rows
count(rows) == Len(rows)

\* a DECIMAL(12,2) as the driver hands it over: two fraction digits
decimalString(m) ==
  Decimal(m \div Mills) \o <<".">>
    \o <<Digits[((m % Mills) \div 100) + 1], Digits[(((m % Mills) \div 10) % 10) + 1]>>

\* the exact sum of a column of decimals, in thousandths
RECURSIVE DecimalSum(_)
DecimalSum(rows) ==
  IF rows = <<>> THEN 0 ELSE parseFloat(Head(rows).total).val + DecimalSum(Tail(rows))

\* sum(quotes.total): NULL over no rows, else the decimal sum as a string
sum(rows) == IF rows = <<>> THEN Null ELSE decimalString(DecimalSum(rows))

\* acceptedQuotes.reduce((sum, quote) => sum + parseFloat(quote.total), 0)
RECURSIVE reduceTotals(_)
reduceTotals(rows) ==
  IF rows = <<>> THEN Num(0)
  ELSE Plus(reduceTotals(SubSeq(rows, 1, Len(rows) - 1)), parseFloat(rows[Len(rows)].total))

\* the four queries of the current variant and what it returns
getDashboardStatsQ(cs, qs, ms, userId, isAdmin, now) ==
  LET mine(r)      == isAdmin \/ r.createdBy = userId
      clientCount  == count(SelectSeq(cs, mine))
      quoteCount   == count(SelectSeq(qs, LAMBDA q : q.status = "sent" /\ mine(q)))
      meetingCount == count(SelectSeq(ms, LAMBDA m :
                        m.scheduledAt >= now /\ m.status = "scheduled" /\ mine(m)))
      revenue      == sum(SelectSeq(qs, LAMBDA q :
                        q.status = "accepted" /\ q.updatedAt >= startOfMonth(now) /\ mine(q)))
  IN [threw |-> FALSE, totalClients |-> clientCount, activeQuotes |-> quoteCount,
      upcomingMeetings |-> meetingCount,
      monthlyRevenue |-> parseFloat(IF revenue = Null THEN <<"0">> ELSE revenue)]

\* the older variant: startOfMonth and endOfMonth are computed and not used
getDashboardStatsQT(cs, qs, ms, userId, isAdmin, now) ==
  LET mine(r)        == isAdmin \/ r.createdBy = userId
      acceptedQuotes == SelectSeq(qs, LAMBDA q : q.status = "accepted" /\ mine(q))
  IN [threw |-> FALSE,
      totalClients |-> Len(SelectSeq(cs, mine)),
      activeQuotes |-> Len(SelectSeq(qs, LAMBDA q : q.status = "sent" /\ mine(q))),
      upcomingMeetings |-> Len(SelectSeq(ms, LAMBDA m : m.status = "scheduled" /\ mine(m))),
      monthlyRevenue |-> reduceTotals(acceptedQuotes)]

\* a query fails: the current variant catches and returns zeros, the older
\* one has no try and rejects
DashboardFailure(v) == IF v = "Q" THEN NoFigures ELSE [NoFigures EXCEPT !.threw = TRUE]

getDashboardStats(userId, isAdmin, now, failed) ==
  /\ stats' = [op |-> "getDashboardStats", userId |-> userId, isAdmin |-> isAdmin,
               now |-> now, failed |-> failed,
               figures |-> IF failed THEN DashboardFailure(variant)
                           ELSE IF variant = "Q"
                           THEN getDashboardStatsQ(clients, quotes, meetings, userId, isAdmin, now)
                           ELSE getDashboardStatsQT(clients, quotes, meetings, userId, isAdmin, now)]
  /\ UNCHANGED <<quoteVars, clients, meetings, listed>>
  /\ UNCHANGED outsideDash

\* the tables the dashboard may find
InitDash ==
  /\ AuthAtRest
  /\ FormsAtRest
  /\ ServicesAtRest
  /\ InitLocals
  /\ variant \in Variants
  /\ listed = NotListed
  /\ \E qs \in SeqsUpTo(Users \X DashQuoteStatuses \X Totals \X Instants, MaxStatQuotes) :
       /\ quotes = [i \in DOMAIN qs |-> StatQuoteRow(i, qs[i][1], qs[i][2], qs[i][3], qs[i][4])]
       /\ nextId = Len(qs) + 1
  /\ \E ms \in SeqsUpTo(Users \X MeetingStatuses \X Instants, MaxStatMeetings) :
       meetings = [i \in DOMAIN ms |-> StatMeetingRow(i, ms[i][1], ms[i][2], ms[i][3])]
  /\ \E cs \in SeqsUpTo(Users, MaxStatClients) :
       clients = [i \in DOMAIN cs |-> ClientRow(i, <<"a">>, Null, cs[i])]

\* one request for the dashboard, by the session's user, as an admin or not
NextDash ==
  \E a \in BOOLEAN, now \in Instants, failed \in BOOLEAN :
    stats = NoStats /\ getDashboardStats(SessionUser, a, now, failed)

SpecDash == InitDash /\ [][NextDash]_vars

\* the thousandths of the totals of the rows of tbl at the indices S
RECURSIVE TotalOver(_, _)
TotalOver(tbl, S) ==
  IF S = {} THEN 0
  ELSE LET i == CHOOSE k \in S : TRUE
       IN parseFloat(tbl[i].total).val + TotalOver(tbl, S \ {i})

\* the indices of the rows of tbl the last dashboard request may count
CountedIn(tbl) ==
  {i \in DOMAIN tbl : stats.isAdmin \/ tbl[i].createdBy = stats.userId}

ActiveQuotes == {i \in CountedIn(quotes) : quotes[i].status = "sent"}

UpcomingMeetings ==
  {i \in CountedIn(meetings) :
     meetings[i].status = "scheduled" /\ ~(meetings[i].scheduledAt < stats.now)}

RevenueQuotes ==
  {i \in CountedIn(quotes) :
     quotes[i].status = "accepted" /\ ~(quotes[i].updatedAt < startOfMonth(stats.now))}

\* C22: getDashboardStats counts the rows of userId for a non-admin and of
\* every owner for an admin; activeQuotes counts exactly the quotes in
\* status 'sent', upcomingMeetings exactly the meetings in status
\* 'scheduled' with scheduledAt not before now, monthlyRevenue sums total
\* over exactly the accepted quotes whose updatedAt is not before the start
\* of the current month; when a query fails all four figures are 0 and the
\* call does not fail.
DashboardScoped ==
  stats.op = "getDashboardStats" =>
    IF stats.failed THEN stats.figures = NoFigures
    ELSE /\ ~stats.figures.threw
         /\ stats.figures.totalClients = Cardinality(CountedIn(clients))
         /\ stats.figures.activeQuotes = Cardinality(ActiveQuotes)
         /\ stats.figures.upcomingMeetings = Cardinality(UpcomingMeetings)
         /\ stats.figures.monthlyRevenue = Num(TotalOver(quotes, RevenueQuotes))

\* the same of the current variant alone
DashboardScopedCurrent == variant = "Q" => DashboardScoped

\* ------------------------------------------------------------------------
\* createQuote in sequential use
\* ------------------------------------------------------------------------
\* C23: with createQuote calls made one after the other within one year on
\* top of the quotes those calls have stored since the table was empty, and
\* no persistence failure, no call fails: none is rejected as a duplicate
\* and each returns the quote it stored, also after the year's 1000th quote.
CreateNeverFails ==
  year = FirstYear => \A p \in Procs : result[p] \notin {"duplicate", "undefined"}

\* ------------------------------------------------------------------------
\* Registration, login and logout (server/customAuth.ts)
\* ------------------------------------------------------------------------
\* the ids nanoid() generates, in order
NanoIds == <<"n1", "n2", "n3", "n4">>

FirstNames == {"Bob", "Cy"}
Roles == {"admin", "consultant"}

\* the bodies a registration request may carry: complete ones, with a role
\* field the handler does not read, and ones that lack a field
CompleteBodies ==
  [email : Emails, password : Passwords, firstName : FirstNames,
   lastName : {"Ray"}, role : Roles]

SampleBody ==
  [email |-> "bob@opian", password |-> "secret", firstName |-> "Bob",
   lastName |-> "Ray", role |-> "consultant"]

IncompleteBodies ==
  {[SampleBody EXCEPT !.email = ""], [SampleBody EXCEPT !.password = ""],
   [SampleBody EXCEPT !.firstName = ""], [SampleBody EXCEPT !.lastName = ""]}

RegisterBodies == CompleteBodies \cup IncompleteBodies

\* !email || !password || !firstName || !lastName
FieldMissing(b) ==
  b.email = "" \/ b.password = "" \/ b.firstName = "" \/ b.lastName = ""

\* a registration that would take the role from the request body
roleFromBody(b) == b.role

\* role: 'consultant', whatever the body says
registerRole(b) == "consultant"

\* insert ... onDuplicateKeyUpdate: a row whose primary key or whose unique
\* email equals the new one is updated in place, id kept; else the row is
\* added
upsertUser(tbl, userData) ==
  LET clash(u) == u.id = userData.id \/ u.email = userData.email
  IN IF \E u \in tbl : clash(u)
     THEN {IF clash(u)
           THEN [u EXCEPT !.email = userData.email,
                          !.firstName = userData.firstName,
                          !.lastName = userData.lastName,
                          !.passwordHash = userData.passwordHash,
                          !.role = userData.role]
           ELSE u : u \in tbl}
     ELSE tbl \cup {userData}

\* a registration that would not look for the email among the stored users
registerUnchecked(r, b) ==
  /\ apc[r] = "idle"
  /\ registers < MaxRegisters
  /\ registers' = registers + 1
  /\ IF FieldMissing(b)
     THEN /\ resp' = [resp EXCEPT ![r] = "400 All fields are required"]
          /\ UNCHANGED <<apc, reqBody>>
     ELSE /\ resp' = [resp EXCEPT ![r] = "none"]
          /\ apc' = [apc EXCEPT ![r] = "upsertUser"]
          /\ reqBody' = [reqBody EXCEPT ![r] = b]
  /\ UNCHANGED <<users, sessions, cookie, destroying, dead, dbUp, reqSid,
                 reqUser, nextSid, requests, logins, removals>>
  /\ UNCHANGED <<minted, loggedOut, logouts>>
  /\ UNCHANGED outsideReg

\* POST /api/auth/register up to the check of the email: 400 when a field
\* is missing, 400 when searchUsers finds the email, 500 when it throws
register(r, b) ==
  /\ apc[r] = "idle"
  /\ registers < MaxRegisters
  /\ registers' = registers + 1
  /\ IF FieldMissing(b)
     THEN /\ resp' = [resp EXCEPT ![r] = "400 All fields are required"]
          /\ UNCHANGED <<apc, reqBody>>
     ELSE IF ~dbUp
     THEN /\ resp' = [resp EXCEPT ![r] = "500"]
          /\ UNCHANGED <<apc, reqBody>>
     ELSE IF searchUsers(b.email) # {}
     THEN /\ resp' = [resp EXCEPT ![r] = "400 User already exists"]
          /\ UNCHANGED <<apc, reqBody>>
     ELSE /\ resp' = [resp EXCEPT ![r] = "none"]
          /\ apc' = [apc EXCEPT ![r] = "upsertUser"]
          /\ reqBody' = [reqBody EXCEPT ![r] = b]
  /\ UNCHANGED <<users, sessions, cookie, destroying, dead, dbUp, reqSid,
                 reqUser, nextSid, requests, logins, removals>>
  /\ UNCHANGED <<minted, loggedOut, logouts>>
  /\ UNCHANGED outsideReg

\* the rest of the registration: hashPassword, nanoid, upsertUser and its
\* read by id, req.session.user, 201; 500 when upsertUser throws or when
\* the read by id finds no row (user.id of undefined)
registerUpsert(r) ==
  /\ apc[r] = "upsertUser"
  /\ apc' = [apc EXCEPT ![r] = "idle"]
  /\ reqBody' = [reqBody EXCEPT ![r] = NoBody]
  /\ IF ~dbUp
     THEN /\ resp' = [resp EXCEPT ![r] = "500"]
          /\ UNCHANGED <<users, minted, sessions, cookie, nextSid, dead>>
     ELSE LET userId   == NanoIds[minted + 1]
              userData == [id |-> userId, email |-> reqBody[r].email,
                           firstName |-> reqBody[r].firstName,
                           lastName |-> reqBody[r].lastName,
                           passwordHash |-> hashPassword(reqBody[r].password),
                           role |-> registerRole(reqBody[r])]
              after    == upsertUser(users, userData)
          IN /\ minted' = minted + 1
             /\ users' = after
             /\ IF \E u \in after : u.id = userId
                THEN /\ SaveSessionUser(userId)
                     /\ resp' = [resp EXCEPT ![r] = "201"]
                ELSE /\ resp' = [resp EXCEPT ![r] = "500"]
                     /\ UNCHANGED <<sessions, cookie, nextSid, dead>>
  /\ UNCHANGED <<destroying, dbUp, reqSid, reqUser, requests, logins, removals>>
  /\ UNCHANGED <<registers, loggedOut, logouts>>
  /\ UNCHANGED outsideReg

\* the users table when the registrations start: one user, an admin
StoredUsers ==
  {[id |-> "u1", email |-> "ann@opian", firstName |-> "Ann", lastName |-> "Lee",
    passwordHash |-> hashPassword("secret"), role |-> "admin"]}

InitReg ==
  /\ users = StoredUsers
  /\ sessions = {}
  /\ cookie = NoSid
  /\ destroying = {}
  /\ dead = {}
  /\ dbUp = TRUE
  /\ apc = [r \in Reqs |-> "idle"]
  /\ reqSid = [r \in Reqs |-> NoSid]
  /\ reqUser = [r \in Reqs |-> NoUser]
  /\ resp = [r \in Reqs |-> "none"]
  /\ nextSid = 1
  /\ requests = 0
  /\ logins = 0
  /\ removals = 0
  /\ OutsideAuthAtRest

\* registration and login requests, served concurrently
NextReg ==
  \/ \E r \in Reqs, b \in RegisterBodies : register(r, b)
  \/ \E r \in Reqs : registerUpsert(r)
  \/ \E r \in Reqs, email \in Emails, password \in Passwords : login(r, email, password)
  \/ Outage

SpecReg == InitReg /\ [][NextReg]_vars

\* every user row stored before the step is stored after it, with the same
\* password hash, name and role
StoredUsersKept ==
  \A u \in users : \E w \in users' :
    /\ w.id = u.id
    /\ w.passwordHash = u.passwordHash
    /\ w.firstName = u.firstName
    /\ w.lastName = u.lastName
    /\ w.role = u.role

OneRowPerEmail(tbl) == \A u, w \in tbl : u.email = w.email => u = w

\* C24: under any interleaving of registration requests, two concurrent
\* requests with the same email that both pass the existing-user check
\* included, no stored user's passwordHash, name or role changes, and the
\* users table holds at most one row per email.
RegistrationKeepsUsers == [][StoredUsersKept /\ OneRowPerEmail(users')]_vars

\* request r is answered and over, with no user written and no session
\* touched
AnsweredWithoutEffect(r, answer) ==
  /\ resp'[r] = answer
  /\ apc'[r] = "idle"
  /\ users' = users
  /\ sessions' = sessions
  /\ cookie' = cookie

RejectedRegistrationStep ==
  \A r \in Reqs, b \in RegisterBodies :
    register(r, b) =>
      /\ FieldMissing(b) => AnsweredWithoutEffect(r, "400 All fields are required")
      /\ (~FieldMissing(b) /\ dbUp /\ searchUsers(b.email) # {}) =>
           AnsweredWithoutEffect(r, "400 User already exists")

\* C25: a registration request whose email belongs to a stored user when
\* the handler looks it up is answered 400 "User already exists", and one
\* that lacks email, password, firstName or lastName is answered 400; in
\* both cases no user is created, no stored user changes, no session gets
\* a user, and the request is over.
RejectedRegistration == [][RejectedRegistrationStep]_vars

\* both rejections have happened, and the table is as it was
RejectedRegistrationWitness ==
  /\ resp["r1"] = "400 User already exists"
  /\ resp["r2"] = "400 All fields are required"
  /\ users = StoredUsers
  /\ sessions = {}

\* the user of session sid in a session store
UserIn(store, sid) ==
  IF \E s \in store : s.sid = sid
  THEN (CHOOSE s \in store : s.sid = sid).user
  ELSE NoUser

\* the stored users whose email and password hash a login's credentials match
Matching(email, password) ==
  {u \in users : u.email = email /\ u.passwordHash = hashPassword(password)}

\* the step is the end of a registration that stored user id
RegistersUser(id) ==
  \E r \in Reqs :
    /\ apc[r] = "upsertUser"
    /\ resp'[r] = "201"
    /\ \E u \in users' \ users : u.id = id /\ u.email = reqBody[r].email

\* the step is a login as user id with that user's email and password
LogsIn(id) ==
  \E r \in Reqs, email \in Emails, password \in Passwords :
    /\ login(r, email, password)
    /\ \E u \in Matching(email, password) : u.id = id

SessionIdentityStep ==
  /\ \A sid \in 1 .. nextSid :
       (UserIn(sessions', sid) # NoUser /\ UserIn(sessions', sid) # UserIn(sessions, sid)) =>
         (RegistersUser(UserIn(sessions', sid)) \/ LogsIn(UserIn(sessions', sid)))
  /\ \A r \in Reqs, email \in Emails, password \in Passwords :
       (login(r, email, password) /\ dbUp /\ Matching(email, password) = {}) =>
         /\ resp'[r] = "401"
         /\ sessions' = sessions
         /\ cookie' = cookie

\* C26: a session gets a user only at the end of a successful registration
\* or by a login whose email is a stored user's and whose password matches
\* that user's hash; a login with an unknown email or a wrong password is
\* answered 401 and leaves every session, and the browser's cookie, as
\* they were.
SessionIdentity == [][SessionIdentityStep]_vars

\* a wrong password was answered 401 with nobody signed in, and a session
\* carries a user
SessionIdentityWitness ==
  /\ resp["r1"] = "401"
  /\ resp["r2"] \in {"signed in", "201"}
  /\ \E s \in sessions : s.user # NoUser

\* every user row after the step either was stored before it with the same
\* role, or is new and a consultant
RolesStep ==
  \A u \in users' :
    IF \E w \in users : w.id = u.id
    THEN \E w \in users : w.id = u.id /\ w.role = u.role
    ELSE u.role = "consultant"

\* C28: every user a registration creates has role 'consultant', whatever
\* the request body carries, and no registration or login request changes
\* the role of a stored user: no user becomes an admin.
RolesFixed == [][RolesStep]_vars

\* a user has been registered and a second registration of the same email
\* has written over the row: the user is a consultant, the admin an admin
RolesFixedWitness ==
  /\ minted = 2
  /\ \E u \in users : u.id = "n1" /\ u.role = "consultant"
  /\ \A u \in users : u.role = "admin" <=> u.id = "u1"

\* ------------------------------------------------------------------------
\* Logout
\* ------------------------------------------------------------------------
\* a logout that would clear the cookie and leave the session in the store
logoutKeepsSession(r) ==
  /\ apc[r] = "idle"
  /\ logouts < MaxLogouts
  /\ logouts' = logouts + 1
  /\ resp' = [resp EXCEPT ![r] = "Logged out successfully"]
  /\ cookie' = NoSid
  /\ loggedOut' = IF cookie = NoSid THEN loggedOut ELSE loggedOut \cup {cookie}
  /\ UNCHANGED <<users, sessions, destroying, dead, dbUp, apc, reqSid, reqUser,
                 nextSid, requests, logins, removals>>
  /\ UNCHANGED <<reqBody, registers, minted>>
  /\ UNCHANGED outsideReg

\* POST /api/auth/logout: req.session.destroy(callback); the callback
\* answers once the store has run the destroy: 500 when it failed, else
\* clearCookie and "Logged out successfully"
logout(r) ==
  /\ apc[r] = "idle"
  /\ logouts < MaxLogouts
  /\ logouts' = logouts + 1
  /\ IF ~dbUp
     THEN /\ resp' = [resp EXCEPT ![r] = "500"]
          /\ UNCHANGED <<sessions, cookie, loggedOut>>
     ELSE /\ resp' = [resp EXCEPT ![r] = "Logged out successfully"]
          /\ sessions' = {s \in sessions : s.sid # cookie}
          /\ cookie' = NoSid
          /\ loggedOut' = IF cookie = NoSid THEN loggedOut ELSE loggedOut \cup {cookie}
  /\ UNCHANGED <<users, destroying, dead, dbUp, apc, reqSid, reqUser,
                 nextSid, requests, logins, removals>>
  /\ UNCHANGED <<reqBody, registers, minted>>
  /\ UNCHANGED outsideReg

\* a client sends the cookie of a session it held before
PresentCookie(sid) ==
  /\ cookie # sid
  /\ cookie' = sid
  /\ UNCHANGED <<users, sessions, destroying, dead, dbUp, apc, reqSid, reqUser,
                 resp, nextSid, requests, logins, removals>>
  /\ UNCHANGED outsideAuth

\* logins, requests through isAuthenticated and logouts of one browser
NextLogout ==
  \/ \E r \in Reqs, email \in Emails, password \in Passwords : login(r, email, password)
  \/ \E r \in Reqs : logout(r)
  \/ \E r \in Reqs : isAuthenticated(r)
  \/ \E r \in Reqs : VerifyUser(r)
  \/ \E sid \in 1 .. (nextSid - 1) : PresentCookie(sid)
  \/ Outage

SpecLogout == InitReg /\ [][NextLogout]_vars

\* a logout is answered "Logged out successfully" only when the store holds
\* its session no more, and a request that carries the id of a session
\* logged out is answered 401 by the first check of isAuthenticated
LoggedOutStep ==
  /\ \A sid \in loggedOut' \ loggedOut : \A s \in sessions' : s.sid # sid
  /\ \A r \in Reqs, sid \in loggedOut :
       (cookie = sid /\ isAuthenticated(r)) =>
         (resp'[r] = "401" /\ apc'[r] = "idle")

\* C27: after a logout answered "Logged out successfully" the session is
\* gone from the store, and every later request that carries its id is
\* rejected with 401 by isAuthenticated; a login or a registration after
\* that signs in to a session with a new id.
LoggedOut == [][LoggedOutStep]_vars

\* r2 has logged in, r1 has logged out and then sent the old cookie through
\* isAuthenticated and got 401
LoggedOutWitness ==
  /\ loggedOut # {}
  /\ cookie \in loggedOut
  /\ resp["r2"] = "signed in"
  /\ resp["r1"] = "401"
  /\ logins = 1
  /\ requests = 1
  /\ logouts = 1

\* ------------------------------------------------------------------------
\* createClient, createMeeting: insert, then read the newest row back
\* ------------------------------------------------------------------------
\* a clients row and a meetings row with the second they were created in
\* (created_at TIMESTAMP DEFAULT CURRENT_TIMESTAMP)
NewClientRow(id, name, owner, at) ==
  [id |-> id, name |-> name, company |-> Null, email |-> Null,
   createdBy |-> owner, createdAt |-> at]

NewMeetingRow(id, title, owner, at) ==
  [id |-> id, title |-> title, createdBy |-> owner, createdAt |-> at]

\* where(eq(column, value)).orderBy(desc(createdAt)).limit(1): the ids of
\* the rows the query may return, any of those created last when several
\* share the second
NewestWhere(tbl, column, value) ==
  {tbl[i].id : i \in {k \in DOMAIN tbl :
     /\ tbl[k][column] = value
     /\ \A j \in DOMAIN tbl : tbl[j][column] = value => tbl[j].createdAt <= tbl[k].createdAt}}

\* await db.insert(clients).values(client)
createClient(p, name, owner) ==
  /\ making[p].step = "idle"
  /\ makes < MaxMakes
  /\ makes' = makes + 1
  /\ clients' = Append(clients, NewClientRow(makes + 1, name, owner, clock))
  /\ making' = [making EXCEPT ![p] =
                  [op |-> "createClient", step |-> "select", id |-> makes + 1, name |-> name]]
  /\ got' = [got EXCEPT ![p] = 0]
  /\ UNCHANGED <<meetings, listed, clock>>
  /\ UNCHANGED outsideMakes

\* await db.insert(meetings).values(meeting)
createMeeting(p, title, owner) ==
  /\ making[p].step = "idle"
  /\ makes < MaxMakes
  /\ makes' = makes + 1
  /\ meetings' = Append(meetings, NewMeetingRow(makes + 1, title, owner, clock))
  /\ making' = [making EXCEPT ![p] =
                  [op |-> "createMeeting", step |-> "select", id |-> makes + 1, name |-> title]]
  /\ got' = [got EXCEPT ![p] = 0]
  /\ UNCHANGED <<clients, listed, clock>>
  /\ UNCHANGED outsideMakes

\* const [newClient] = await db.select()...limit(1); return newClient (and
\* the same of createMeeting, on title)
ReadBack(p) ==
  /\ making[p].step = "select"
  /\ \E id \in IF making[p].op = "createClient"
               THEN NewestWhere(clients, "name", making[p].name)
               ELSE NewestWhere(meetings, "title", making[p].name) :
       got' = [got EXCEPT ![p] = id]
  /\ making' = [making EXCEPT ![p].step = "idle"]
  /\ UNCHANGED <<clients, meetings, listed, clock, makes>>
  /\ UNCHANGED outsideMakes

\* a second passes
Second ==
  /\ clock < MaxSeconds
  /\ clock' = clock + 1
  /\ UNCHANGED <<clients, meetings, listed, making, got, makes>>
  /\ UNCHANGED outsideMakes

InitMakes ==
  /\ QuotesAtRest
  /\ AuthAtRest
  /\ ListsAtRest
  /\ FormsAtRest
  /\ ServicesAtRest

\* create calls of the users' requests, served concurrently
NextMakes ==
  \/ \E p \in Procs, name \in Names, owner \in Users : createClient(p, name, owner)
  \/ \E p \in Procs, title \in Names, owner \in Users : createMeeting(p, title, owner)
  \/ \E p \in Procs : ReadBack(p)
  \/ Second

SpecMakes == InitMakes /\ [][NextMakes]_vars

\* C29: createClient and createMeeting (createDocument is written the same
\* way) return the row the call itself inserted, under any interleaving of
\* concurrent create calls, calls of different users with the same name or
\* title included.
ReturnsOwnRow ==
  \A p \in Procs : got[p] # 0 => got[p] = making[p].id

\* ------------------------------------------------------------------------
\* getNextQuoteNumber and the table
\* ------------------------------------------------------------------------
\* p's call of getNextQuoteNumber returns in this step
Returns(p) == pc[p] = "idle" /\ pc'[p] = "insert"

\* the call of getNextQuoteNumber leaves the table as it is; two calls that
\* hold a number, read in the same year with no insert and no delete
\* between their reads, hold the same number; and the table gets a number
\* only where an insert of createQuote succeeds, the number being the one
\* the call holds
ReservesNothingStep ==
  /\ \A p \in Procs : Returns(p) => (quotes' = quotes /\ nextId' = nextId)
  /\ \A p, q \in Procs :
       (/\ pc'[p] = "insert" /\ pc'[q] = "insert"
        /\ readVer'[p] = readVer'[q] /\ yearRead'[p] = yearRead'[q]) =>
         cand'[p] = cand'[q]
  /\ Len(quotes') > Len(quotes) =>
       \E p \in Procs :
         /\ pc[p] = "insert"
         /\ result'[p] \in {"inserted", "created"}
         /\ quotes' = Append(quotes, quotes'[Len(quotes')])
         /\ quotes'[Len(quotes')].quoteNumber = cand[p]

\* C30: getNextQuoteNumber reserves nothing: it leaves the quotes table
\* unchanged, two calls in the same year with no quote insert or delete
\* between them return the same number, and a number enters the table only
\* when the insert of createQuote succeeds.
ReservesNothing == [][ReservesNothingStep]_vars

\* two calls hold the same number, read from the same table, and the table
\* does not hold it
ReservesNothingWitness ==
  /\ pc["p1"] = "insert"
  /\ pc["p2"] = "insert"
  /\ SameRead("p1", "p2")
  /\ cand["p1"] = cand["p2"]
  /\ \A i \in DOMAIN quotes : quotes[i].quoteNumber # cand["p1"]

====
